---- MODULE Spec2Model ----
(***************************************************************************)
(* Resource synchronisation core of the ChildSubnet service               *)
(* (pkg/nsx/services/childsubnet) and the hierarchical builder of the      *)
(* subnet binding service: resource stores, the diff through the          *)
(* Comparable conversions, VLAN allocation, create / update / delete of   *)
(* a ChildSubnet against the backend, and the hNode tree builder.         *)
(*                                                                         *)
(* A Go pointer that is nil is the value NilPtr, a nil interface is        *)
(* NilIface; a call that dereferences one of them ends with outcome       *)
(* "panic", keeping the state it had written before.                      *)
(***************************************************************************)
EXTENDS Integers, Sequences, FiniteSets, TLC

VARIABLES
    ipPoolStore,                \* ChildSubnetService.ipPoolStore
    ipBlockSubnetStore,         \* ChildSubnetService.ipBlockSubnetStore
    childSegmentStore,          \* ChildSubnetService.childSegmentStore
    connectionBindingMapStore,  \* ChildSubnetService.connectionBindingMapStore
    tier1Store,                 \* ChildSubnetService.tier1Store
    natRuleStore,               \* ChildSubnetService.natRuleStore
    parentConfigStore,          \* ChildSubnetService.parentConfigStore
    exhaustedIPBlock,           \* ChildSubnetService.exhaustedIPBlock
    parentSegmentStore,         \* ChildSubnetService.parentSegmentStore
    startup,                    \* InitializeChildSubnet and the goroutines it starts
    workers,                    \* the calls that workers have in progress on the shared state
    bindings,                   \* the binding CRs and the store of the subnetbinding controller
    call                        \* the last call: operation, inputs, outcome, requests sent

stores == <<ipPoolStore, ipBlockSubnetStore, childSegmentStore,
            connectionBindingMapStore, tier1Store, natRuleStore>>

vars == <<ipPoolStore, ipBlockSubnetStore, childSegmentStore,
          connectionBindingMapStore, tier1Store, natRuleStore,
          parentConfigStore, exhaustedIPBlock, parentSegmentStore, startup, workers,
          bindings, call>>

-----------------------------------------------------------------------------
(* Bounds of the model.                                                    *)

\* The VLAN range of nextVlan is 1..4094 in the code; the model scales it down
\* so that a store can hold a binding map for every tag of the range.
MaxVlan == 2
\* Longest list handed to a store's Apply or to the diff in one call.
MaxBatch == 2
\* Longest batch of binding maps handed to the hierarchical builder.
MaxLeaves == 3

CSUids == {"u1", "u2"}

\* A policy path is the sequence of its segments: /infra/segments/p1.
ParentPaths == {<<"infra", "segments", "p1">>, <<"infra", "segments", "p2">>}

Tier1Path == <<"infra", "tier-1s", "t1">>
PublicIPBlockPath == <<"infra", "ip-blocks", "public">>
PrivateIPBlockPath == <<"infra", "ip-blocks", "private">>

Cluster == "k8scl-one"

NilPtr == [nilPointer |-> TRUE]
NilIface == [nilInterface |-> TRUE]

SeqToSet(s) == {s[i] : i \in 1..Len(s)}

\* All the orders in which a Go map or set can be iterated.
Orders(S) == {s \in [1..Cardinality(S) -> S] : SeqToSet(s) = S}

\* n nil pointers, as make([]*T, n) yields.
NilPtrs(n) == [i \in 1..n |-> NilPtr]
NilIfaces(n) == [i \in 1..n |-> NilIface]

-----------------------------------------------------------------------------
(* Tag scopes and the tagged resources.                                    *)

TagScopeCluster == "nsx-op/cluster"
TagScopeChildSubnetUID == "nsx-op/childsubnet_uid"
TagScopeParentConfigUID == "nsx-op/parentconfig_uid"
TagScopeNCPProjectUID == "ncp/project_uid"
TagScopeNCPVNetworkUID == "ncp/vnet_uid"

ipPoolPPrefix == "ipc"
ipPoolSubnetPrefix == "ibs"
childSegmentPrefix == "cs"
segmentConnectionBindingMapPrefix == "scbm"
policyNATRulePrefix == "pnr"

\* util.GenerateID: the id is a function of the owner's UID, the kind prefix,
\* a suffix and an index.
GenerateID(uid, prefix, suffix, index) == <<prefix, uid, suffix, index>>

\* util.GenerateDisplayName.
GenerateDisplayName(name, prefix, suffix) == <<prefix, name, suffix>>

\* util.BuildBasicTags: the cluster tag and the tag of the owning ChildSubnet.
BuildBasicTags(cluster, childSubnet) ==
    << [scope |-> TagScopeCluster, tag |-> cluster],
       [scope |-> TagScopeChildSubnetUID, tag |-> childSubnet.uid] >>

ChildSubnet(uid) ==
    [uid |-> uid, name |-> uid, namespace |-> "ns1", parent |-> "vnet1",
     accessMode |-> "Private"]

ChildSubnets == {ChildSubnet(u) : u \in CSUids}

ParentConfig(paths) ==
    [id |-> "vnet1-uid", name |-> "vnet1", namespace |-> "ns1",
     tier1Path |-> Tier1Path, transportZonePath |-> <<"infra", "tz", "tz1">>,
     segmentPaths |-> paths,
     publicIPBlockPath |-> PublicIPBlockPath,
     privateIPBlockPath |-> PrivateIPBlockPath]

ParentConfigs == {ParentConfig(S) : S \in SUBSET ParentPaths}

-----------------------------------------------------------------------------
(* Builders (t1builder.go).                                                *)

\* An id made of the parent of the ChildSubnet, which its siblings share.
buildIPPoolIDOfParent(childSubnet) == GenerateID(childSubnet.parent, ipPoolPPrefix, "", "")

buildIPPoolID(childSubnet) == GenerateID(childSubnet.uid, ipPoolPPrefix, "", "")
buildIPSubnetID(childSubnet) == GenerateID(childSubnet.uid, ipPoolSubnetPrefix, "", "")
buildSegmentID(childSubnet) == GenerateID(childSubnet.uid, childSegmentPrefix, "", "")

buildIPPoolIntentPath(childSubnet) == <<"infra", "ip-pools", buildIPPoolID(childSubnet)>>
buildSegmentIntentPath(childSubnet) == <<"infra", "segments", buildSegmentID(childSubnet)>>

getSegmentIDFromPath(path) == path[Len(path)]

buildSegmentBindingMapID(childSubnet, parentID) ==
    GenerateID(childSubnet.uid, segmentConnectionBindingMapPrefix, parentID, "")

buildPolicyNATRuleID(childSubnet, index) ==
    GenerateID(childSubnet.uid, policyNATRulePrefix, "", index)

\* ippool.BuildIPPool.
BuildIPPool(id, name, tags) ==
    [id |-> id, displayName |-> name, tags |-> tags,
     markedForDelete |-> FALSE, children |-> <<>>]

\* ippool.BuildIPSubnet.
BuildIPSubnet(id, name, ipBlockPath, tags) ==
    [id |-> id, displayName |-> name, ipBlockPath |-> ipBlockPath, tags |-> tags,
     markedForDelete |-> FALSE]

getValidIPBlockPath(accessMode, parentConfig) ==
    IF accessMode = "Public" THEN parentConfig.publicIPBlockPath
    ELSE parentConfig.privateIPBlockPath

buildIPPool(childSubnet, tags) ==
    BuildIPPool(buildIPPoolID(childSubnet),
                GenerateDisplayName(childSubnet.name, ipPoolPPrefix, ""), tags)

buildIPSubnet(childSubnet, ipBlockPath, tags) ==
    BuildIPSubnet(buildIPSubnetID(childSubnet),
                  GenerateDisplayName(childSubnet.name, ipPoolSubnetPrefix, ""),
                  ipBlockPath, tags)

BuildSegment(id, name, connectivityPath, tzPath, gateway, ipPoolPath, tags) ==
    [id |-> id, displayName |-> name, connectivityPath |-> connectivityPath,
     transportZonePath |-> tzPath, gateway |-> gateway, ipPoolPath |-> ipPoolPath,
     tags |-> tags, markedForDelete |-> FALSE, children |-> <<>>]

buildSegment(childSubnet, parentConfig, ipPoolPath, gateway, tags) ==
    BuildSegment(buildSegmentID(childSubnet),
                 GenerateDisplayName(childSubnet.name, childSegmentPrefix, ""),
                 parentConfig.tier1Path, parentConfig.transportZonePath,
                 gateway, ipPoolPath, tags)

BuildSegmentConnectionBindingMap(id, name, parentPath, vlanTag, tags) ==
    [id |-> id, displayName |-> name, segmentPath |-> parentPath,
     vlanTrafficTag |-> vlanTag, tags |-> tags, markedForDelete |-> FALSE]

\* The tags of a binding map: the basic tags and the parent configuration's.
bindMapTags(tags, parentConfig) ==
    Append(tags, [scope |-> TagScopeParentConfigUID, tag |-> parentConfig.id])

\* The binding map built for one parent path.
buildBindingMapFor(childSubnet, parentConfig, parentPath, vlanTag, tags) ==
    BuildSegmentConnectionBindingMap(
        buildSegmentBindingMapID(childSubnet, getSegmentIDFromPath(parentPath)),
        GenerateDisplayName(childSubnet.name, segmentConnectionBindingMapPrefix,
                            getSegmentIDFromPath(parentPath)),
        parentPath, vlanTag, bindMapTags(tags, parentConfig))

\* buildSegmentConnectionBindingMaps: the slice is made with len(parentPaths)
\* nil pointers and the built binding maps are appended after them; `order` is
\* the order in which the set of parent paths was iterated.
buildSegmentConnectionBindingMaps(childSubnet, parentConfig, vlanTag, tags, order) ==
    NilPtrs(Cardinality(parentConfig.segmentPaths)) \o
    [i \in 1..Len(order) |->
        buildBindingMapFor(childSubnet, parentConfig, order[i], vlanTag, tags)]

BuildNATRules(id, name, isSrc, tags) ==
    [id |-> id, displayName |-> name, isSrc |-> isSrc, tags |-> tags,
     markedForDelete |-> FALSE]

\* buildPolicySNATRules for the one CIDR of the ChildSubnet: a source and a
\* destination rule.
buildPolicySNATRules(childSubnet, tags) ==
    << BuildNATRules(buildPolicyNATRuleID(childSubnet, 0),
                     GenerateDisplayName(childSubnet.name, policyNATRulePrefix, 0),
                     TRUE, tags),
       BuildNATRules(buildPolicyNATRuleID(childSubnet, 1),
                     GenerateDisplayName(childSubnet.name, policyNATRulePrefix, 1),
                     FALSE, tags) >>

Tier1(id) ==
    [id |-> id, path |-> Tier1Path,
     tags |-> << [scope |-> TagScopeNCPProjectUID, tag |-> "ns1-uid"] >>,
     markedForDelete |-> FALSE, children |-> <<>>]

MarkForDelete(obj) == [obj EXCEPT !.markedForDelete = TRUE]

-----------------------------------------------------------------------------
(* Resource stores: a cache.Indexer keyed by keyFunc with index functions  *)
(* (part_003).                                                             *)

keyFunc(obj) == obj.id

\* filterTag: the tags of the given scope.
filterTag(tags, tagScope) ==
    {tags[i].tag : i \in {j \in 1..Len(tags) : tags[j].scope = tagScope}}

\* An index function's result: the keys, or an error.
IndexKeys(keys) == [err |-> FALSE, keys |-> keys]
IndexError == [err |-> TRUE, keys |-> {}]

\* indexFuncByScope switches on the value types model.X; anything else (a
\* pointer, a ParentConfig) is an unknown type.
indexFuncByScope(isModelValue, obj, tagScope) ==
    IF isModelValue THEN IndexKeys(filterTag(obj.tags, tagScope)) ELSE IndexError

childSubnetUidIndexFunc(isPointer, obj) ==
    indexFuncByScope(~isPointer, obj, TagScopeChildSubnetUID)

parentConfigUidIndexFunc(isPointer, obj) ==
    indexFuncByScope(~isPointer, obj, TagScopeParentConfigUID)

projectUidIndexFunc(isPointer, obj) ==
    indexFuncByScope(~isPointer, obj, TagScopeNCPProjectUID)

\* connectionBindingMapByParentSegmentPathIndexFunc asserts
\* *model.SegmentConnectionBindingMap and yields no key (and no error) for
\* anything else.
connectionBindingMapByParentSegmentPathIndexFunc(isPointer, obj) ==
    IF isPointer THEN IndexKeys({obj.segmentPath}) ELSE IndexKeys({})

\* tier1ByPolicyPathFunc asserts *model.Tier1 and fails for anything else.
tier1ByPolicyPathFunc(isPointer, obj) ==
    IF isPointer THEN IndexKeys({obj.path}) ELSE IndexError

\* tier1ByClusteredNamespaceFunc asserts *model.Tier1 and fails for anything else.
tier1ByClusteredNamespaceFunc(isPointer, obj) ==
    IF isPointer THEN IndexKeys({obj.path}) ELSE IndexError

\* segmentByVNetIndexFunc asserts *model.Segment and fails for anything else.
segmentByVNetIndexFunc(isPointer, obj) ==
    IF isPointer THEN IndexKeys(filterTag(obj.tags, TagScopeNCPVNetworkUID))
    ELSE IndexError

\* Every Apply stores the dereferenced object: store.Add(*obj).
StoredAsPointer == FALSE

\* Whether every index function of the store accepts the stored object; the
\* indexer panics in Add, Update and Delete when one of them fails.
ipPoolIndexersOK(obj) == ~childSubnetUidIndexFunc(StoredAsPointer, obj).err
ipBlockSubnetIndexersOK(obj) == ~childSubnetUidIndexFunc(StoredAsPointer, obj).err
childSegmentIndexersOK(obj) == ~childSubnetUidIndexFunc(StoredAsPointer, obj).err
natRuleIndexersOK(obj) == ~childSubnetUidIndexFunc(StoredAsPointer, obj).err
parentSegmentIndexersOK(obj) == ~segmentByVNetIndexFunc(StoredAsPointer, obj).err
connectionBindingMapIndexersOK(obj) ==
    /\ ~childSubnetUidIndexFunc(StoredAsPointer, obj).err
    /\ ~parentConfigUidIndexFunc(StoredAsPointer, obj).err
    /\ ~connectionBindingMapByParentSegmentPathIndexFunc(StoredAsPointer, obj).err
tier1IndexersOK(obj) ==
    /\ ~projectUidIndexFunc(StoredAsPointer, obj).err
    /\ ~tier1ByPolicyPathFunc(StoredAsPointer, obj).err
    /\ ~tier1ByClusteredNamespaceFunc(StoredAsPointer, obj).err

HasKey(items, key) == \E r \in items : keyFunc(r) = key

\* The entry of a key is replaced, never doubled.
PutItem(items, obj) == {r \in items : keyFunc(r) # keyFunc(obj)} \cup {obj}

\* The indexer's Add: the item is put under its key, then the indices are
\* updated, which panics when an index function fails.
IndexerAdd(items, obj, indexersOK) ==
    [items |-> PutItem(items, obj), panic |-> ~indexersOK]

\* The indexer's Delete: for a key it holds, the indices are updated first
\* (a panic leaves the item in place), then the item is removed.
IndexerDelete(items, obj, indexersOK) ==
    IF ~HasKey(items, keyFunc(obj)) THEN [items |-> items, panic |-> FALSE]
    ELSE IF ~indexersOK THEN [items |-> items, panic |-> TRUE]
    ELSE [items |-> {r \in items : keyFunc(r) # keyFunc(obj)}, panic |-> FALSE]

\* One item of an Apply: Delete when marked for delete, Add otherwise.
ApplyOne(items, obj, indexersOK) ==
    IF obj.markedForDelete THEN IndexerDelete(items, obj, indexersOK)
    ELSE IndexerAdd(items, obj, indexersOK)

\* Whether the index functions of the store of the given kind accept the object.
indexersOK(kind, obj) ==
    CASE kind = "ipPool" -> ipPoolIndexersOK(obj)
      [] kind = "ipBlockSubnet" -> ipBlockSubnetIndexersOK(obj)
      [] kind = "childSegment" -> childSegmentIndexersOK(obj)
      [] kind = "connectionBindingMap" -> connectionBindingMapIndexersOK(obj)
      [] kind = "tier1" -> tier1IndexersOK(obj)
      [] kind = "natRule" -> natRuleIndexersOK(obj)
      [] kind = "parentSegment" -> parentSegmentIndexersOK(obj)

\* Apply of a list, item by item; it stops at a panic, and a nil pointer in the
\* list is dereferenced, which panics.
RECURSIVE ApplyList(_, _, _)
ApplyList(items, list, kind) ==
    IF list = <<>> THEN [items |-> items, panic |-> FALSE]
    ELSE IF Head(list) = NilPtr THEN [items |-> items, panic |-> TRUE]
    ELSE LET r == ApplyOne(items, Head(list), indexersOK(kind, Head(list)))
         IN IF r.panic THEN r ELSE ApplyList(r.items, Tail(list), kind)

\* An Apply that takes one pointer asserts i.(*T): a slice panics.
ApplySingle(items, arg, kind) ==
    IF arg.isSlice THEN [items |-> items, panic |-> TRUE]
    ELSE ApplyOne(items, arg.obj, indexersOK(kind, arg.obj))

IPPoolStoreApply(items, arg) == ApplySingle(items, arg, "ipPool")
IPPoolBlockSubnetStoreApply(items, list) == ApplyList(items, list, "ipBlockSubnet")
SegmentStoreApply(items, list) == ApplyList(items, list, "childSegment")
SegmentConnectionBindingMapStoreApply(items, list) ==
    ApplyList(items, list, "connectionBindingMap")
Tier1StoreApply(items, arg) == ApplySingle(items, arg, "tier1")
NATRuleStoreApply(items, arg) == ApplySingle(items, arg, "natRule")

\* An argument of a single-pointer Apply.
One(obj) == [isSlice |-> FALSE, obj |-> obj]
Slice(list) == [isSlice |-> TRUE, list |-> list]

\* ByIndex: the stored items that have the value among their keys of the index.
parentSegmentPathKey == "parentSegment"
t1PathIndexer == "t1PolicyPath"

\* The index function registered under an index name.
indexFunc(index, obj) ==
    CASE index = TagScopeChildSubnetUID -> childSubnetUidIndexFunc(StoredAsPointer, obj)
      [] index = parentSegmentPathKey ->
            connectionBindingMapByParentSegmentPathIndexFunc(StoredAsPointer, obj)
      [] index = t1PathIndexer -> tier1ByPolicyPathFunc(StoredAsPointer, obj)
      [] index = TagScopeNCPVNetworkUID -> segmentByVNetIndexFunc(StoredAsPointer, obj)

ByIndex(items, index, value) ==
    {r \in items : value \in indexFunc(index, r).keys}

-----------------------------------------------------------------------------
(* Hierarchical requests of the ChildSubnet service (wrap.go).  A wrap     *)
(* function appends the child wrappers to the Children of the object it is *)
(* given, so it yields the object as it is left together with its wrapper. *)

HasNil(list) == \E i \in 1..Len(list) : list[i] = NilPtr

Wrapper(type, obj, children) ==
    [type |-> type, id |-> obj.id, markedForDelete |-> obj.markedForDelete,
     children |-> children]

Panicked == [panic |-> TRUE]

wrapInfra(children) == [type |-> "Infra", children |-> children]

wrapIPSubnets(IPSubnets) ==
    [i \in 1..Len(IPSubnets) |-> Wrapper("ChildIpAddressPoolSubnet", IPSubnets[i], <<>>)]

wrapIPPool(iap) == Wrapper("ChildIpAddressPool", iap, iap.children)

\* A nil subnet in the list is dereferenced by wrapIPSubnets.
wrapIPPoolAndSubnets(ipPool, ipSubnets) ==
    IF HasNil(ipSubnets) THEN Panicked
    ELSE LET pool == [ipPool EXCEPT !.children = @ \o wrapIPSubnets(ipSubnets)]
         IN [panic |-> FALSE, obj |-> pool, node |-> wrapIPPool(pool)]

WrapHierarchyIPPool(iap, iapbs) ==
    LET w == wrapIPPoolAndSubnets(iap, <<iapbs>>)
    IN IF w.panic THEN Panicked
       ELSE [panic |-> FALSE, pool |-> w.obj, infra |-> wrapInfra(<<w.node>>)]

wrapSegmentConnectionBindingMap(bindingMaps) ==
    [i \in 1..Len(bindingMaps) |->
        Wrapper("ChildSegmentConnectionBindingMap", bindingMaps[i], <<>>)]

wrapSegments(segment) == Wrapper("ChildSegment", segment, segment.children)

\* A nil binding map in the list is dereferenced by
\* wrapSegmentConnectionBindingMap.
wrapSegmentAndConnectionBindingMaps(segment, bindingMaps) ==
    IF HasNil(bindingMaps) THEN Panicked
    ELSE LET seg == [segment EXCEPT
                        !.children = @ \o wrapSegmentConnectionBindingMap(bindingMaps)]
         IN [panic |-> FALSE, obj |-> seg, node |-> wrapSegments(seg)]

\* A variant of BuildDefaultSNAT: the default NAT is made marked for delete.
BuildDeletedSNAT ==
    [id |-> "DEFAULT", displayName |-> "DEFAULT", markedForDelete |-> TRUE,
     children |-> <<>>]

BuildDefaultSNAT ==
    [id |-> "DEFAULT", displayName |-> "DEFAULT", markedForDelete |-> FALSE,
     children |-> <<>>]

wrapPolicyNatRules(rules) ==
    [i \in 1..Len(rules) |-> Wrapper("ChildPolicyNatRule", rules[i], <<>>)]

wrapPolicyNats(nat) == Wrapper("ChildPolicyNat", nat, nat.children)

wrapPolicyTier1s(tier1) == Wrapper("ChildTier1", tier1, tier1.children)

wrapTier1AndNATRules(tier1, nat, natRules) ==
    IF HasNil(natRules) THEN Panicked
    ELSE LET n == [nat EXCEPT !.children = @ \o wrapPolicyNatRules(natRules)]
             t == [tier1 EXCEPT !.children = Append(@, wrapPolicyNats(n))]
         IN [panic |-> FALSE, obj |-> t, node |-> wrapPolicyTier1s(t)]

WrapHierarchyChildSegment(segment, bindingMaps) ==
    LET w == wrapSegmentAndConnectionBindingMaps(segment, bindingMaps)
    IN IF w.panic THEN Panicked
       ELSE [panic |-> FALSE, segment |-> w.obj, infra |-> wrapInfra(<<w.node>>)]

WrapHierarchySegmentAndNAT(segment, bindingMaps, tier1, nat, natRules) ==
    LET w == wrapSegmentAndConnectionBindingMaps(segment, bindingMaps)
        t == wrapTier1AndNATRules(tier1, nat, natRules)
    IN IF w.panic THEN Panicked
       ELSE IF tier1 = NilPtr
            THEN [panic |-> FALSE, segment |-> w.obj, infra |-> wrapInfra(<<w.node>>)]
       ELSE IF t.panic THEN Panicked
       ELSE [panic |-> FALSE, segment |-> w.obj, infra |-> wrapInfra(<<w.node, t.node>>)]

\* A variant of WrapHierarchyInfra that wraps the children in a request even
\* when there are none.
WrapHierarchyInfraAlways(ipPool, ipSubnet, segment, bindingMaps, tier1, nat, natRules) ==
    LET p == IF ipPool # NilPtr THEN wrapIPPoolAndSubnets(ipPool, <<ipSubnet>>)
             ELSE [panic |-> FALSE, obj |-> NilPtr]
        g == IF segment # NilPtr
             THEN wrapSegmentAndConnectionBindingMaps(segment, bindingMaps)
             ELSE [panic |-> FALSE, obj |-> NilPtr]
        t == IF tier1 # NilPtr /\ Len(natRules) > 0
             THEN wrapTier1AndNATRules(tier1, nat, natRules)
             ELSE [panic |-> FALSE, obj |-> tier1]
        infraChildren ==
            (IF ipPool # NilPtr THEN <<p.node>> ELSE <<>>) \o
            (IF segment # NilPtr THEN <<g.node>> ELSE <<>>) \o
            (IF tier1 # NilPtr /\ Len(natRules) > 0 THEN <<t.node>> ELSE <<>>)
    IN IF p.panic \/ g.panic \/ t.panic THEN Panicked
       ELSE [panic |-> FALSE, pool |-> p.obj, segment |-> g.obj,
             infra |-> wrapInfra(infraChildren)]

\* WrapHierarchyInfra: the pool, the segment and the tier-1 are each wrapped
\* only when given; with nothing to wrap the request is nil.
WrapHierarchyInfra(ipPool, ipSubnet, segment, bindingMaps, tier1, nat, natRules) ==
    LET p == IF ipPool # NilPtr THEN wrapIPPoolAndSubnets(ipPool, <<ipSubnet>>)
             ELSE [panic |-> FALSE, obj |-> NilPtr]
        g == IF segment # NilPtr
             THEN wrapSegmentAndConnectionBindingMaps(segment, bindingMaps)
             ELSE [panic |-> FALSE, obj |-> NilPtr]
        t == IF tier1 # NilPtr /\ Len(natRules) > 0
             THEN wrapTier1AndNATRules(tier1, nat, natRules)
             ELSE [panic |-> FALSE, obj |-> tier1]
        infraChildren ==
            (IF ipPool # NilPtr THEN <<p.node>> ELSE <<>>) \o
            (IF segment # NilPtr THEN <<g.node>> ELSE <<>>) \o
            (IF tier1 # NilPtr /\ Len(natRules) > 0 THEN <<t.node>> ELSE <<>>)
    IN IF p.panic \/ g.panic \/ t.panic THEN Panicked
       ELSE [panic |-> FALSE, pool |-> p.obj, segment |-> g.obj,
             infra |-> IF Len(infraChildren) = 0 THEN NilPtr
                       ELSE wrapInfra(infraChildren)]

-----------------------------------------------------------------------------
(* The diff through the Comparable conversions (compare.go).               *)

\* (*SegmentConnectionBindingMap)(scbm): the pointer in a Comparable; a nil
\* pointer gives a Comparable that is not the nil interface.
SegmentConnectionBindingMapToComparable(scbm) == [cmp |-> scbm]

\* The result slice is made with len(scbms) nil interfaces and the converted
\* items are appended after them.
SegmentConnectionBindingMapsToComparable(scbms) ==
    NilIfaces(Len(scbms)) \o
    [i \in 1..Len(scbms) |-> SegmentConnectionBindingMapToComparable(scbms[i])]

ComparableToSegmentConnectionBindingMap(scbm) == scbm.cmp

\* The result slice is made with len(scbms) nil pointers and the converted
\* items are appended after them.
ComparableToSegmentConnectionBindingMaps(scbms) ==
    NilPtrs(Len(scbms)) \o
    [i \in 1..Len(scbms) |-> ComparableToSegmentConnectionBindingMap(scbms[i])]

\* (*Segment)(s): the pointer in a Comparable, as for the binding maps.
SegmentToComparable(s) == [cmp |-> s]

\* The result slice is made with len(ss) nil interfaces and the converted
\* segments are appended after them.
SegmentsToComparable(ss) ==
    NilIfaces(Len(ss)) \o [i \in 1..Len(ss) |-> SegmentToComparable(ss[i])]

ComparableToSegment(s) == s.cmp

\* The result slice is made with len(ss) nil pointers and the converted
\* segments are appended after them.
ComparableToSegments(ss) ==
    NilPtrs(Len(ss)) \o [i \in 1..Len(ss) |-> ComparableToSegment(ss[i])]

\* Key dereferences the Id of the binding map.
Key(c) == c.cmp.id

\* Value: the data value built from Id, DisplayName and Tags.
Value(c) == [id |-> c.cmp.id, displayName |-> c.cmp.displayName, tags |-> c.cmp.tags]

\* An item whose Key cannot be taken: the nil interface, or a nil pointer in
\* a Comparable.
KeyPanics(c) == c = NilIface \/ c.cmp = NilPtr

NonNil(list) == SelectSeq(list, LAMBDA c : c # NilIface)

\* common.CompareResources: existing is indexed by key; an expected item is
\* changed if no existing item shares its key or the values differ; an
\* existing item whose key is absent from expected is stale.  skipNil tells
\* whether nil interfaces are dropped from the lists first or their Key is
\* taken.  The results are sets: their order is that of a map iteration.
CompareResources(existing, expected, skipNil) ==
    LET ex == IF skipNil THEN NonNil(existing) ELSE existing
        ep == IF skipNil THEN NonNil(expected) ELSE expected
    IN IF \E c \in SeqToSet(ex) \cup SeqToSet(ep) : KeyPanics(c) THEN Panicked
       ELSE [panic |-> FALSE,
             changed |-> {e \in SeqToSet(ep) :
                            \A x \in SeqToSet(ex) :
                                Key(x) = Key(e) => Value(x) # Value(e)},
             stale |-> {x \in SeqToSet(ex) :
                            \A e \in SeqToSet(ep) : Key(e) # Key(x)}]

-----------------------------------------------------------------------------
(* The ChildSubnet service (childsubnet.go).  An operation is computed on  *)
(* the record of the stores and yields the stores it leaves, its outcome   *)
(* ("ok", "err" or "panic"), the VLAN it allocated and the PATCH requests  *)
(* it sent, each with the backend's answer.                                *)

Stores ==
    [ipPool |-> ipPoolStore, ipBlockSubnet |-> ipBlockSubnetStore,
     childSegment |-> childSegmentStore, bindingMap |-> connectionBindingMapStore,
     tier1 |-> tier1Store, natRule |-> natRuleStore, exhausted |-> exhaustedIPBlock]

Result(s, outcome, err, vlan, patches, status) ==
    [s |-> s, outcome |-> outcome, err |-> err, vlan |-> vlan, patches |-> patches,
     status |-> status, realized |-> "-",
     apiErr |-> [isApiError |-> FALSE, relatedErrors |-> <<>>]]

\* The result of an operation whose PATCH failed with the given error.
Failed(r, apiErr) == [r EXCEPT !.apiErr = apiErr]

\* The result of an operation that listed the realized state and was answered.
Realized(r, answer) == [r EXCEPT !.realized = answer]

NoStatus == [set |-> FALSE]

Patch(req, answer) == [req |-> req, ok |-> answer = "ok"]

\* The first item of an index lookup, nil when there is none; the indexer
\* lists the items of a key in no particular order.
FirstOf(S) == IF S = {} THEN {NilPtr} ELSE S

getByChildSubnet(items, uid) == FirstOf(ByIndex(items, TagScopeChildSubnetUID, uid))

listByChildSubnet(items, uid) == Orders(ByIndex(items, TagScopeChildSubnetUID, uid))

listByParentSegmentPath(items, path) ==
    ByIndex(items, parentSegmentPathKey, path)

getByPolicyPath(items, policyPath) ==
    FirstOf(ByIndex(items, t1PathIndexer, policyPath))

getTier1ByParent(items, parentConfig) ==
    IF parentConfig.tier1Path = <<>> THEN {NilPtr}
    ELSE getByPolicyPath(items, parentConfig.tier1Path)

getNamespacedName(namespace, name) == <<namespace, name>>

\* parentConfigStore.getByNamespaceName: the "namespacedName" index is computed
\* by parentConfigUidIndexFunc, which knows no ParentConfig.
getByNamespaceName(items, name, namespace) ==
    FirstOf({pc \in items :
                getNamespacedName(namespace, name)
                    \in indexFuncByScope(FALSE, pc, TagScopeParentConfigUID).keys})

\* ParentConfigStore.Apply asserts *ParentConfig, so a slice panics; the
\* dereferenced config it then hands to Add or Delete is refused by
\* parentConfigKeyFunc, which asserts *ParentConfig, so nothing is stored.
ParentConfigStoreApply(items, arg) ==
    IF arg.isSlice THEN [items |-> items, outcome |-> "panic"]
    ELSE [items |-> items, outcome |-> "err"]

\* The VLAN tags of the binding maps listed under the parent paths.
existingVlans(bindingMaps, parentConfig) ==
    {bm.vlanTrafficTag :
        bm \in UNION {listByParentSegmentPath(bindingMaps, pp)
                        : pp \in parentConfig.segmentPaths}}

\* nextVlan: the smallest tag of 1..MaxVlan that is not among the existing
\* ones, an error when there is none.
nextVlan(bindingMaps, parentConfig) ==
    LET used == existingVlans(bindingMaps, parentConfig)
        free == {i \in 1..MaxVlan : i \notin used}
    IN IF free = {} THEN [err |-> TRUE, vlan |-> 0]
       ELSE [err |-> FALSE, vlan |-> CHOOSE i \in free : \A j \in free : i <= j]

\* applyResourcesInStore: the five Apply calls in turn; the pool store and the
\* NAT rule store are handed slices.
applyResourcesInStore(s, nsxIPPool, nsxIPPoolSubnet, segment, bindingMaps, natRules) ==
    LET a1 == IPPoolStoreApply(s.ipPool, Slice(<<nsxIPPool>>))
        s1 == [s EXCEPT !.ipPool = a1.items]
        a2 == IPPoolBlockSubnetStoreApply(s1.ipBlockSubnet, <<nsxIPPoolSubnet>>)
        s2 == [s1 EXCEPT !.ipBlockSubnet = a2.items]
        a3 == SegmentStoreApply(s2.childSegment, <<segment>>)
        s3 == [s2 EXCEPT !.childSegment = a3.items]
        a4 == SegmentConnectionBindingMapStoreApply(s3.bindingMap, bindingMaps)
        s4 == [s3 EXCEPT !.bindingMap = a4.items]
        a5 == NATRuleStoreApply(s4.natRule, Slice(natRules))
        s5 == [s4 EXCEPT !.natRule = a5.items]
    IN IF a1.panic THEN [s |-> s1, panic |-> TRUE]
       ELSE IF a2.panic THEN [s |-> s2, panic |-> TRUE]
       ELSE IF a3.panic THEN [s |-> s3, panic |-> TRUE]
       ELSE IF a4.panic THEN [s |-> s4, panic |-> TRUE]
       ELSE [s |-> s5, panic |-> a5.panic]

\* A variant of ApplySegmentConnectionBindingMaps that applies the binding
\* maps to the store before it looks at the answer to the PATCH.
ApplyThenPatch(s, childSegment, finalBindingMaps, answer) ==
    LET w == WrapHierarchyChildSegment(childSegment, finalBindingMaps)
        a == SegmentConnectionBindingMapStoreApply(s.bindingMap, finalBindingMaps)
    IN IF w.panic THEN Result(s, "panic", "nil dereference", 0, <<>>, NoStatus)
       ELSE Result([s EXCEPT !.bindingMap = a.items],
                   IF answer # "ok" THEN "err" ELSE "ok",
                   IF answer # "ok" THEN "patch failed" ELSE "", 0,
                   <<Patch(w.infra, answer)>>, NoStatus)

\* ApplySegmentConnectionBindingMaps: the child segment is wrapped with the
\* binding maps and patched; the binding maps are applied to the store once the
\* PATCH succeeded.
ApplySegmentConnectionBindingMaps(s, childSegment, finalBindingMaps, answer) ==
    LET w == WrapHierarchyChildSegment(childSegment, finalBindingMaps)
        a == SegmentConnectionBindingMapStoreApply(s.bindingMap, finalBindingMaps)
    IN IF w.panic THEN Result(s, "panic", "nil dereference", 0, <<>>, NoStatus)
       ELSE IF answer # "ok"
            THEN Result(s, "err", "patch failed", 0, <<Patch(w.infra, answer)>>, NoStatus)
       ELSE Result([s EXCEPT !.bindingMap = a.items],
                   IF a.panic THEN "panic" ELSE "ok", "", 0,
                   <<Patch(w.infra, answer)>>, NoStatus)

\* The answers of the backend to one operation: to the PATCH of the pool, to
\* the listing of the realized state, to the PATCH of the segment, to the
\* compensating PATCH.
PoolAnswers == {"ok", "fail"}
RealizeAnswers == {"ok", "err", "timeout"}
PatchAnswers == {"ok", "fail"}

Gateway == "gw/24"

\* The error code of "IpAddressBlock with max size does not have spare capacity".
NoSpareCapacity == 520012

ErrorCodes == {NoSpareCapacity, NoSpareCapacity + 1}

\* An error message is the sequence of its parts; a part "path" with value P
\* stands for the text path=[P].
PathPart(path) == [key |-> "path", value |-> path]
TextPart == [key |-> "text", value |-> <<>>]

ErrorMessages ==
    {<<TextPart>>, <<TextPart, PathPart(PrivateIPBlockPath)>>,
     <<PathPart(PublicIPBlockPath), TextPart>>,
     <<PathPart(<<>>), PathPart(PrivateIPBlockPath)>>}

RelatedApiError(errorCode, errorMessage) ==
    [errorCode |-> errorCode, errorMessage |-> errorMessage]

RelatedApiErrors ==
    {RelatedApiError(c, m) : c \in ErrorCodes, m \in ErrorMessages}

\* What nsxutil.DumpAPIError makes of the error of a PATCH: nil for an error
\* that is no API error, otherwise the API error with its related errors.
NotApiError == [isApiError |-> FALSE, relatedErrors |-> <<>>]
ApiError(relatedErrors) == [isApiError |-> TRUE, relatedErrors |-> relatedErrors]

\* The errors the PATCH of the pool fails with.
ApiErrors ==
    {NotApiError, ApiError(<<>>)}
    \cup {ApiError(<<e>>) : e \in RelatedApiErrors}
    \cup {ApiError(<<RelatedApiError(NoSpareCapacity + 1, <<TextPart, PathPart(PrivateIPBlockPath)>>),
                     RelatedApiError(NoSpareCapacity, <<PathPart(PublicIPBlockPath), TextPart>>)>>),
           ApiError(<<RelatedApiError(NoSpareCapacity, <<TextPart>>),
                     RelatedApiError(NoSpareCapacity, <<TextPart, PathPart(PrivateIPBlockPath)>>)>>)}

\* pathRegex.FindStringSubmatch for the pattern path=\[([^\]]+)\]: the first
\* path=[...] with a non-empty value, as the match and its group; no match is
\* the empty sequence.
FindStringSubmatch(errorMessage) ==
    LET hits == {i \in 1..Len(errorMessage) :
                    errorMessage[i].key = "path" /\ errorMessage[i].value # <<>>}
    IN IF hits = {} THEN <<>>
       ELSE LET first == CHOOSE i \in hits : \A j \in hits : i <= j
            IN <<errorMessage[first], errorMessage[first].value>>

\* The loop over apiErr.RelatedErrors: the path of the first related error
\* that has the capacity code and a message with a path.
RECURSIVE exhaustedPath(_)
exhaustedPath(relatedErrors) ==
    IF relatedErrors = <<>> THEN [found |-> FALSE, path |-> <<>>]
    ELSE LET apiErrItem == Head(relatedErrors)
             pathMatch == FindStringSubmatch(apiErrItem.errorMessage)
         IN IF apiErrItem.errorCode = NoSpareCapacity /\ Len(pathMatch) > 1
            THEN [found |-> TRUE, path |-> pathMatch[2]]
            ELSE exhaustedPath(Tail(relatedErrors))

\* Whether the exhaustedIPBlock set of the service was made: the struct
\* literal of InitializeChildSubnet does not set the field, and nothing else
\* assigns it, so it is the nil set.
exhaustedIPBlockMade == FALSE

\* The exhausted block is inserted unless the set has it.  The nil set has
\* no element, and an insert into it panics.
recordExhausted(exhausted, path) ==
    IF path \in exhausted THEN [panic |-> FALSE, set |-> exhausted]
    ELSE IF exhaustedIPBlockMade THEN [panic |-> FALSE, set |-> exhausted \cup {path}]
    ELSE [panic |-> TRUE, set |-> exhausted]

\* DeleteChildSubnet's release of the block of the deleted subnet.
releaseExhausted(exhausted, ipBlockPath) ==
    IF ipBlockPath \in exhausted THEN exhausted \ {ipBlockPath} ELSE exhausted

\* The compensation deferred by createChildSubnets: the pool, as the first
\* wrap left it, and its subnet are marked for delete, wrapped and patched.
compensation(pool, subnet, answer) ==
    Patch(WrapHierarchyIPPool(MarkForDelete(pool), MarkForDelete(subnet)).infra, answer)

\* A later step of createChildSubnets that returns after the pool PATCH and
\* hands back the results of a return with nsxErr set: a variant whose
\* compensation is tried again when it fails and whose failure is returned.
returnUndoError(nsxErr, undo) ==
    IF undo.ok THEN [err |-> nsxErr, patches |-> <<undo>>]
    ELSE [err |-> "compensation failed", patches |-> <<undo, undo>>]

\* A return of createChildSubnets with nsxErr set: the deferred function
\* patches the compensation once and drops what the PATCH returns, and the
\* caller gets the error of the return statement.
returnWithCompensation(nsxErr, undo) == [err |-> nsxErr, patches |-> <<undo>>]

\* createChildSubnets, for one iteration order of the parent paths, one tier-1
\* of the lookup and one series of answers of the backend.
createChildSubnets(s, childSubnet, parentConfig, tags, tier1, order, be) ==
    LET nv == nextVlan(s.bindingMap, parentConfig)
        ipBlockPath == getValidIPBlockPath(childSubnet.accessMode, parentConfig)
        nsxIPPool == buildIPPool(childSubnet, tags)
        nsxIPPoolSubnet == buildIPSubnet(childSubnet, ipBlockPath, tags)
        w1 == WrapHierarchyIPPool(nsxIPPool, nsxIPPoolSubnet)
        p1 == Patch(w1.infra, be.pool)
        ex == exhaustedPath(be.apiErr.relatedErrors)
        undo == compensation(w1.pool, nsxIPPoolSubnet, be.undo)
        segment == buildSegment(childSubnet, parentConfig,
                                buildIPPoolIntentPath(childSubnet), Gateway, tags)
        bindingMaps ==
            buildSegmentConnectionBindingMaps(childSubnet, parentConfig, nv.vlan, tags, order)
        natRules == buildPolicySNATRules(childSubnet, tags)
        w2 == WrapHierarchySegmentAndNAT(segment, bindingMaps, tier1,
                                         BuildDefaultSNAT, natRules)
        p2 == Patch(w2.infra, be.update)
        a == applyResourcesInStore(s, w1.pool, nsxIPPoolSubnet, w2.segment,
                                   bindingMaps, natRules)
    IN IF nv.err THEN Result(s, "err", "no valid VLAN", 0, <<>>, NoStatus)
       ELSE IF be.pool = "fail"
            THEN Failed(
                 IF be.apiErr.isApiError /\ ex.found
                 THEN LET rec == recordExhausted(s.exhausted, ex.path)
                      IN IF rec.panic
                         THEN Result(s, "panic", "nil map", nv.vlan, <<p1>>, NoStatus)
                         ELSE Result([s EXCEPT !.exhausted = rec.set], "err",
                                     "ip block exhausted", nv.vlan, <<p1>>, NoStatus)
                 ELSE Result(s, "err", "patch failed", nv.vlan, <<p1>>, NoStatus),
                 be.apiErr)
       ELSE IF be.realize = "err"
            THEN LET d == returnWithCompensation("realization failed", undo)
                 IN Realized(Result(s, "err", d.err, nv.vlan,
                                    <<p1>> \o d.patches, NoStatus), be.realize)
       ELSE IF be.realize = "timeout"
            THEN Realized(Result(s, "panic", "nil dereference", nv.vlan,
                                 <<p1>>, NoStatus), be.realize)
       ELSE Realized(
            IF w2.panic
            THEN Result(s, "panic", "nil dereference", nv.vlan, <<p1>>, NoStatus)
            ELSE IF be.update = "fail"
            THEN LET d == returnWithCompensation("patch failed", undo)
                 IN Result(s, "err", d.err, nv.vlan, <<p1, p2>> \o d.patches, NoStatus)
            ELSE IF a.panic
            THEN Result(a.s, "panic", "type assertion", nv.vlan, <<p1, p2>>, NoStatus)
            ELSE Result(a.s, "ok", "", nv.vlan, <<p1, p2>>,
                        [set |-> TRUE,
                         nsxResourcePath |-> buildSegmentIntentPath(childSubnet),
                         ipAddresses |-> <<Gateway>>, vlan |-> nv.vlan]),
            be.realize)

MarkAll(list) == [i \in 1..Len(list) |-> MarkForDelete(list[i])]

\* The diff of updateChildSubnetBindingMaps: the lists are compared through
\* the Comparable conversions, the changed and the stale items are converted
\* back and the stale ones are marked for delete, which dereferences each of
\* them.  The comparison lists its results in the order of a map iteration, so
\* every order is a result.
DiffBindingMaps(existingBindingMaps, desiredBindingMaps, skipNil) ==
    LET d == CompareResources(
                 SegmentConnectionBindingMapsToComparable(existingBindingMaps),
                 SegmentConnectionBindingMapsToComparable(desiredBindingMaps), skipNil)
        back(changed, staled) ==
            LET changedBindingMaps == ComparableToSegmentConnectionBindingMaps(changed)
                staledBindingMaps == ComparableToSegmentConnectionBindingMaps(staled)
            IN [outcome |-> IF HasNil(staledBindingMaps) THEN "panic" ELSE "ok",
                changed |-> changedBindingMaps, staled |-> staledBindingMaps]
    IN IF d.panic THEN {[outcome |-> "panic", changed |-> <<>>, staled |-> <<>>]}
       ELSE IF d.changed = {} /\ d.stale = {}
            THEN {[outcome |-> "ok", changed |-> <<>>, staled |-> <<>>]}
       ELSE {back(changed, staled) :
                changed \in Orders(d.changed), staled \in Orders(d.stale)}

\* updateChildSubnetBindingMaps: every result it can have for one iteration
\* order of the parent paths, one listing of the cached binding maps and one
\* answer of the backend.
updateChildSubnetBindingMaps(s, childSubnet, vlan, parentConfig, childSegment, tags, order, existingBindingMaps, skipNil, answer) ==
    LET desiredBindingMaps ==
            buildSegmentConnectionBindingMaps(childSubnet, parentConfig, vlan, tags, order)
        finish(d) ==
            IF d.outcome = "panic"
            THEN Result(s, "panic", "nil dereference", 0, <<>>, NoStatus)
            ELSE IF Len(d.changed) = 0 /\ Len(d.staled) = 0
            THEN Result(s, "ok", "no changes", 0, <<>>, NoStatus)
            ELSE ApplySegmentConnectionBindingMaps(
                     s, childSegment, d.changed \o MarkAll(d.staled), answer)
    IN {finish(d) : d \in DiffBindingMaps(existingBindingMaps, desiredBindingMaps, skipNil)}

\* DeleteChildSubnet for the cached resources the lookups gave (nil when there
\* is none) and one answer of the backend.
DeleteChildSubnet(s, childSegment, bindingMaps, parentConfig, tier1, natRules, ipPool, ipPoolSubnet, answer) ==
    LET mark(o) == IF o = NilPtr THEN o ELSE MarkForDelete(o)
        w == WrapHierarchyInfra(mark(ipPool), mark(ipPoolSubnet), mark(childSegment),
                                MarkAll(bindingMaps), tier1, BuildDefaultSNAT,
                                MarkAll(natRules))
        p == Patch(w.infra, answer)
        a == applyResourcesInStore(s, w.pool, mark(ipPoolSubnet), w.segment,
                                   MarkAll(bindingMaps), MarkAll(natRules))
    IN IF childSegment = NilPtr THEN Result(s, "ok", "no child segment", 0, <<>>, NoStatus)
       ELSE IF parentConfig = NilPtr
            THEN Result(s, "err", "no parent configuration", 0, <<>>, NoStatus)
       ELSE IF w.panic THEN Result(s, "panic", "nil dereference", 0, <<>>, NoStatus)
       ELSE IF answer # "ok" THEN Result(s, "err", "patch failed", 0, <<p>>, NoStatus)
       ELSE IF a.panic THEN Result(a.s, "panic", "type assertion", 0, <<p>>, NoStatus)
       ELSE IF ipPoolSubnet = NilPtr
            THEN Result(a.s, "panic", "nil dereference", 0, <<p>>, NoStatus)
       ELSE Result([a.s EXCEPT !.exhausted = releaseExhausted(@, ipPoolSubnet.ipBlockPath)],
                   "ok", "", 0, <<p>>, NoStatus)

\* The series of answers an operation can consume: an answer that is never
\* asked for is "-".
BackendsWith(apiErrors) ==
    {be \in [pool : PoolAnswers, apiErr : apiErrors, realize : RealizeAnswers \cup {"-"},
             update : PatchAnswers \cup {"-"}, undo : PatchAnswers \cup {"-"}] :
        /\ be.pool = "ok" => be.apiErr = NotApiError
        /\ be.realize = "-" <=> be.pool # "ok"
        /\ be.update = "-" <=> be.realize # "ok"
        /\ be.undo = "-" <=> ~(be.realize = "err" \/ be.update = "fail")}

\* The answers with the two errors of the pool PATCH that the service as a
\* whole is run against: one that is no API error and one that reports the
\* private block as exhausted.
Backends ==
    BackendsWith({NotApiError,
                  ApiError(<<RelatedApiError(NoSpareCapacity,
                                             <<TextPart, PathPart(PrivateIPBlockPath)>>)>>)})

\* All the results of createChildSubnets on the stores s for the given
\* answers of the backend.
CreateResultsWith(s, childSubnet, parentConfig, backends) ==
    {createChildSubnets(s, childSubnet, parentConfig,
                        BuildBasicTags(Cluster, childSubnet), tier1, order, be) :
        tier1 \in getTier1ByParent(s.tier1, parentConfig),
        order \in Orders(parentConfig.segmentPaths),
        be \in backends}

\* All the results of createChildSubnets on the stores s.
CreateResults(s, childSubnet, parentConfig) ==
    CreateResultsWith(s, childSubnet, parentConfig, Backends)

\* All the results of updateChildSubnetBindingMaps on the stores s.
UpdateResults(s, childSubnet, vlan, parentConfig, childSegment) ==
    UNION {updateChildSubnetBindingMaps(s, childSubnet, vlan, parentConfig, childSegment,
                                        BuildBasicTags(Cluster, childSubnet),
                                        order, existing, skipNil, answer) :
        order \in Orders(parentConfig.segmentPaths),
        existing \in listByChildSubnet(s.bindingMap, childSubnet.uid),
        skipNil \in BOOLEAN,
        answer \in PatchAnswers}

\* A lookup of the parent configuration that falls back on a configuration
\* without parent segments when none is stored.
getParentConfigOrDefault(configs, childSubnet) ==
    LET found == getByNamespaceName(configs, childSubnet.parent, childSubnet.namespace)
    IN IF found = {NilPtr} THEN {ParentConfig({})} ELSE found

\* getParentConfig: the configuration stored under the namespace and the
\* parent of the ChildSubnet; nil stands for the error it returns when none is.
getParentConfig(configs, childSubnet) ==
    getByNamespaceName(configs, childSubnet.parent, childSubnet.namespace)

\* All the results of DeleteChildSubnet on the stores s.
DeleteResults(s, configs, childSubnet) ==
    {DeleteChildSubnet(s, childSegment, bindingMaps, parentConfig, tier1, natRules,
                       ipPool, ipPoolSubnet, answer) :
        childSegment \in getByChildSubnet(s.childSegment, childSubnet.uid),
        bindingMaps \in listByChildSubnet(s.bindingMap, childSubnet.uid),
        parentConfig \in getParentConfig(configs, childSubnet),
        tier1 \in getByPolicyPath(s.tier1, Tier1Path),
        natRules \in listByChildSubnet(s.natRule, childSubnet.uid),
        ipPool \in getByChildSubnet(s.ipPool, childSubnet.uid),
        ipPoolSubnet \in getByChildSubnet(s.ipBlockSubnet, childSubnet.uid),
        answer \in PatchAnswers}

\* A variant of CreateOrUpdateChildSubnet: the resources are created whether
\* or not a child segment is cached.
CreateOrUpdateAlwaysCreates(s, childSubnet, parentConfig) ==
    CreateResults(s, childSubnet, parentConfig)

\* CreateOrUpdateChildSubnet once the parent configuration is found: with a
\* cached child segment the binding maps are updated with the VLAN of the
\* status, whatever it is, and otherwise the resources are created.
CreateOrUpdateChildSubnet(s, childSubnet, parentConfig) ==
    UNION {
        IF childSegment # NilPtr
        THEN UNION {UpdateResults(s, childSubnet, vlan, parentConfig, childSegment)
                    : vlan \in 1..MaxVlan}
        ELSE CreateResults(s, childSubnet, parentConfig)
        : childSegment \in getByChildSubnet(s.childSegment, childSubnet.uid)}

\* All the results of CreateOrUpdateChildSubnet on the stores s: the parent
\* configuration is looked up, then the binding maps are updated when a child
\* segment is cached and the resources are created otherwise.
CreateOrUpdateResults(s, configs, childSubnet) ==
    UNION {
        IF parentConfig = NilPtr
        THEN {Result(s, "err", "no parent configuration", 0, <<>>, NoStatus)}
        ELSE CreateOrUpdateChildSubnet(s, childSubnet, parentConfig)
        : parentConfig \in getParentConfig(configs, childSubnet)}

-----------------------------------------------------------------------------
(* The stores on their own: any sequence of Apply calls on the six stores. *)

\* No call is in progress.
NoWorkers == <<>>

\* The subnetbinding controller is not running.
NoBindings == [crs |-> {}, store |-> {}, conditions |-> <<>>]

\* InitializeChildSubnet's wg.Add(8): one listing task for each store.
ListingTasks == 8

\* The listing tasks, in the order of their go statements: the IP blocks, the
\* pools, the pool subnets, the child segments, the parent segments, the
\* binding maps, the tier-1s and the NAT rules.
Tasks == 1..ListingTasks

\* The goroutines of InitializeChildSubnet: where the function is (at the go
\* statement of task next, at the select, returned ok or returned the error
\* of task err), the position of every task, the counter of the wait group,
\* whether wgDone and fatalErrors are closed, and the tasks that failed.
Startup(main, next, task, wg, wgDone, closed, failed, err) ==
    [main |-> main, next |-> next, task |-> task, wg |-> wg, wgDone |-> wgDone,
     closed |-> closed, failed |-> failed, err |-> err]

\* InitializeChildSubnet has returned the service and no error.
Started ==
    Startup("ok", ListingTasks + 1, [i \in Tasks |-> "done"], 0, TRUE, FALSE, {}, 0)

\* All the lists of at most n elements of S.
ListsUpTo(S, n) == UNION {[1..k -> S] : k \in 0..n}

StoreIds == {"a", "b"}
StoreNames == {"n1", "n2"}

StoreTags == << [scope |-> TagScopeChildSubnetUID, tag |-> "u1"] >>

\* The objects the stores are fed with: two revisions of an id differ by
\* display name, and each comes live or marked for delete.
WithMark(S) == S \cup {MarkForDelete(o) : o \in S}

IPPools == WithMark({BuildIPPool("a", n, StoreTags) : n \in StoreNames})
IPSubnets == WithMark({BuildIPSubnet("a", "n1", PrivateIPBlockPath, StoreTags)})
Segments ==
    WithMark({BuildSegment("a", "n1", Tier1Path, <<"infra", "tz", "tz1">>, "gw",
                           <<"infra", "ip-pools", "a">>, StoreTags)})
BindingMaps ==
    WithMark({BuildSegmentConnectionBindingMap("a", "a", <<"infra", "segments", "p1">>,
                                               v, StoreTags) : v \in 1..MaxVlan}
             \cup {BuildSegmentConnectionBindingMap("b", "b", <<"infra", "segments", "p1">>,
                                                    1, StoreTags)})
Tier1s == WithMark({[Tier1("a") EXCEPT !.children = c] : c \in {<<>>, <<"nat">>}})
NATRules == WithMark({BuildNATRules("a", "n1", TRUE, StoreTags)})

Outcome(r) == IF r.panic THEN "panic" ELSE "ok"

ApplyCall(store, arg, r) ==
    [op |-> "Apply", store |-> store, arg |-> arg, outcome |-> Outcome(r)]

ApplyIPPool ==
    \E o \in IPPools :
        LET r == IPPoolStoreApply(ipPoolStore, One(o)) IN
        /\ ipPoolStore' = r.items
        /\ call' = ApplyCall("ipPool", <<o>>, r)
        /\ UNCHANGED <<ipBlockSubnetStore, childSegmentStore, connectionBindingMapStore,
                       tier1Store, natRuleStore, parentConfigStore, exhaustedIPBlock,
                       parentSegmentStore, startup, workers, bindings>>

ApplyIPPoolBlockSubnets ==
    \E l \in ListsUpTo(IPSubnets, MaxBatch) :
        LET r == IPPoolBlockSubnetStoreApply(ipBlockSubnetStore, l) IN
        /\ ipBlockSubnetStore' = r.items
        /\ call' = ApplyCall("ipBlockSubnet", l, r)
        /\ UNCHANGED <<ipPoolStore, childSegmentStore, connectionBindingMapStore,
                       tier1Store, natRuleStore, parentConfigStore, exhaustedIPBlock,
                       parentSegmentStore, startup, workers, bindings>>

ApplySegments ==
    \E l \in ListsUpTo(Segments, MaxBatch) :
        LET r == SegmentStoreApply(childSegmentStore, l) IN
        /\ childSegmentStore' = r.items
        /\ call' = ApplyCall("childSegment", l, r)
        /\ UNCHANGED <<ipPoolStore, ipBlockSubnetStore, connectionBindingMapStore,
                       tier1Store, natRuleStore, parentConfigStore, exhaustedIPBlock,
                       parentSegmentStore, startup, workers, bindings>>

ApplyBindingMaps ==
    \E l \in ListsUpTo(BindingMaps, MaxBatch) :
        LET r == SegmentConnectionBindingMapStoreApply(connectionBindingMapStore, l) IN
        /\ connectionBindingMapStore' = r.items
        /\ call' = ApplyCall("connectionBindingMap", l, r)
        /\ UNCHANGED <<ipPoolStore, ipBlockSubnetStore, childSegmentStore,
                       tier1Store, natRuleStore, parentConfigStore, exhaustedIPBlock,
                       parentSegmentStore, startup, workers, bindings>>

ApplyTier1 ==
    \E o \in Tier1s :
        LET r == Tier1StoreApply(tier1Store, One(o)) IN
        /\ tier1Store' = r.items
        /\ call' = ApplyCall("tier1", <<o>>, r)
        /\ UNCHANGED <<ipPoolStore, ipBlockSubnetStore, childSegmentStore,
                       connectionBindingMapStore, natRuleStore, parentConfigStore,
                       exhaustedIPBlock,
                       parentSegmentStore, startup, workers, bindings>>

ApplyNATRule ==
    \E o \in NATRules :
        LET r == NATRuleStoreApply(natRuleStore, One(o)) IN
        /\ natRuleStore' = r.items
        /\ call' = ApplyCall("natRule", <<o>>, r)
        /\ UNCHANGED <<ipPoolStore, ipBlockSubnetStore, childSegmentStore,
                       connectionBindingMapStore, tier1Store, parentConfigStore,
                       exhaustedIPBlock,
                       parentSegmentStore, startup, workers, bindings>>

NoCall == [op |-> "none", outcome |-> "ok"]

StoreInit ==
    /\ ipPoolStore = {}
    /\ ipBlockSubnetStore = {}
    /\ childSegmentStore = {}
    /\ connectionBindingMapStore = {}
    /\ tier1Store = {}
    /\ natRuleStore = {}
    /\ parentConfigStore = {}
    /\ exhaustedIPBlock = {}
    /\ parentSegmentStore = {}
    /\ startup = Started
    /\ workers = NoWorkers
    /\ bindings = NoBindings
    /\ call = NoCall

StoreNext ==
    \/ ApplyIPPool
    \/ ApplyIPPoolBlockSubnets
    \/ ApplySegments
    \/ ApplyBindingMaps
    \/ ApplyTier1
    \/ ApplyNATRule

StoreSpec == StoreInit /\ [][StoreNext]_vars

\* The store a kind names.
StoreOf(kind) ==
    CASE kind = "ipPool" -> ipPoolStore
      [] kind = "ipBlockSubnet" -> ipBlockSubnetStore
      [] kind = "childSegment" -> childSegmentStore
      [] kind = "connectionBindingMap" -> connectionBindingMapStore
      [] kind = "tier1" -> tier1Store
      [] kind = "natRule" -> natRuleStore

UniqueIds(items) == \A r1, r2 \in items : keyFunc(r1) = keyFunc(r2) => r1 = r2

\* What the last Apply's list leaves for an id: the last item of the list
\* that has the id decides.
LastFor(list, id) ==
    LET idx == {i \in 1..Len(list) : keyFunc(list[i]) = id}
    IN list[CHOOSE i \in idx : \A j \in idx : j <= i]

AppliedIds(list) == {keyFunc(list[i]) : i \in 1..Len(list)}

\* After an Apply the store holds, for each id of the list, the last live item
\* given for it and nothing if that item was marked for delete.
ApplyEffect(kind) ==
    (call.op = "Apply" /\ call.store = kind) =>
        \A id \in AppliedIds(call.arg) :
            LET o == LastFor(call.arg, id) IN
            IF o.markedForDelete THEN ~HasKey(StoreOf(kind), id)
            ELSE o \in StoreOf(kind)

Kinds == {"ipPool", "ipBlockSubnet", "childSegment", "connectionBindingMap",
          "tier1", "natRule"}

\* C1: every store holds at most one entry per id, and after an Apply an item
\* marked for delete is absent and any other item is present as last given.
C1_StoreUpsertDelete ==
    \A kind \in Kinds : UniqueIds(StoreOf(kind)) /\ ApplyEffect(kind)

\* C1 for the stores other than the tier-1 store.
C1_OtherStores ==
    \A kind \in Kinds \ {"tier1"} :
        UniqueIds(StoreOf(kind)) /\ ApplyEffect(kind) /\
        (call.op = "Apply" /\ call.store = kind => call.outcome = "ok")

\* An Apply of {x, live} then {x, marked for delete} on the binding map store
\* left the store without x.
C1_OtherStoresWitness ==
    /\ call.op = "Apply" /\ call.store = "connectionBindingMap"
    /\ Len(call.arg) = 2
    /\ keyFunc(call.arg[1]) = keyFunc(call.arg[2])
    /\ ~call.arg[1].markedForDelete /\ call.arg[2].markedForDelete
    /\ ~HasKey(connectionBindingMapStore, keyFunc(call.arg[1]))
    /\ connectionBindingMapStore # {}

-----------------------------------------------------------------------------
(* The service: calls of its operations in any order, on stores that were  *)
(* filled from the backend's listing when the service was initialized.     *)

SetStores(s) ==
    /\ ipPoolStore' = s.ipPool
    /\ ipBlockSubnetStore' = s.ipBlockSubnet
    /\ childSegmentStore' = s.childSegment
    /\ connectionBindingMapStore' = s.bindingMap
    /\ tier1Store' = s.tier1
    /\ natRuleStore' = s.natRule
    /\ exhaustedIPBlock' = s.exhausted

ServiceCall(op, childSubnet, parentConfig, arg, r) ==
    [op |-> op, uid |-> childSubnet.uid, pc |-> parentConfig, arg |-> arg,
     outcome |-> r.outcome, err |-> r.err, vlan |-> r.vlan, patches |-> r.patches,
     status |-> r.status, realized |-> r.realized, apiErr |-> r.apiErr]

\* The ChildSubnet whose resources the backend listed at initialization, and
\* the parent configuration they were built for.
Listed == ChildSubnet("u1")
ListedConfig == ParentConfig(ParentPaths)
ListedTags == BuildBasicTags(Cluster, Listed)

ListedBindingMaps ==
    {buildBindingMapFor(Listed, ListedConfig, pp, v, ListedTags) :
        pp \in ParentPaths, v \in 1..MaxVlan}

ListedSegment ==
    buildSegment(Listed, ListedConfig, buildIPPoolIntentPath(Listed), Gateway, ListedTags)

CallCreateOrUpdateChildSubnet ==
    \E childSubnet \in ChildSubnets :
      \E r \in CreateOrUpdateResults(Stores, parentConfigStore, childSubnet) :
        /\ SetStores(r.s)
        /\ call' = ServiceCall("CreateOrUpdateChildSubnet", childSubnet, NilPtr, <<>>, r)
        /\ UNCHANGED <<parentConfigStore, parentSegmentStore, startup, workers, bindings>>

CallCreateChildSubnets ==
    \E childSubnet \in ChildSubnets, parentConfig \in ParentConfigs :
      \E r \in CreateResults(Stores, childSubnet, parentConfig) :
        /\ SetStores(r.s)
        /\ call' = ServiceCall("createChildSubnets", childSubnet, parentConfig, <<>>, r)
        /\ UNCHANGED <<parentConfigStore, parentSegmentStore, startup, workers, bindings>>

CallUpdateChildSubnetBindingMaps ==
    \E parentConfig \in ParentConfigs, vlan \in 1..MaxVlan :
      \E r \in UpdateResults(Stores, Listed, vlan, parentConfig, ListedSegment) :
        /\ SetStores(r.s)
        /\ call' = ServiceCall("updateChildSubnetBindingMaps", Listed, parentConfig,
                               <<vlan>>, r)
        /\ UNCHANGED <<parentConfigStore, parentSegmentStore, startup, workers, bindings>>

DistinctIds(list) ==
    \A i, j \in 1..Len(list) : keyFunc(list[i]) = keyFunc(list[j]) => i = j

\* The lists of binding maps handed to ApplySegmentConnectionBindingMaps: live
\* or marked for delete, no id twice.
FinalBindingMapLists ==
    {l \in ListsUpTo(WithMark(ListedBindingMaps), MaxBatch) : DistinctIds(l)}

CallApplySegmentConnectionBindingMaps ==
    \E finalBindingMaps \in FinalBindingMapLists, answer \in PatchAnswers :
        LET r == ApplySegmentConnectionBindingMaps(Stores, ListedSegment,
                                                   finalBindingMaps, answer) IN
        /\ SetStores(r.s)
        /\ call' = ServiceCall("ApplySegmentConnectionBindingMaps", Listed, NilPtr,
                               finalBindingMaps, r)
        /\ UNCHANGED <<parentConfigStore, parentSegmentStore, startup, workers, bindings>>

CallDeleteChildSubnet ==
    \E childSubnet \in ChildSubnets :
      \E r \in DeleteResults(Stores, parentConfigStore, childSubnet) :
        /\ SetStores(r.s)
        /\ call' = ServiceCall("DeleteChildSubnet", childSubnet, NilPtr, <<>>, r)
        /\ UNCHANGED <<parentConfigStore, parentSegmentStore, startup, workers, bindings>>

CallParentConfigStoreApply ==
    \E parentConfig \in ParentConfigs, isSlice \in BOOLEAN :
        LET r == ParentConfigStoreApply(parentConfigStore,
                                        [isSlice |-> isSlice, obj |-> parentConfig]) IN
        /\ parentConfigStore' = r.items
        /\ call' = [op |-> "ParentConfigStore.Apply", pc |-> parentConfig,
                    arg |-> isSlice, outcome |-> r.outcome, patches |-> <<>>]
        /\ UNCHANGED <<ipPoolStore, ipBlockSubnetStore, childSegmentStore,
                       connectionBindingMapStore, tier1Store, natRuleStore,
                       exhaustedIPBlock,
                       parentSegmentStore, startup, workers, bindings>>

\* The VirtualNetwork of the parent configuration.
VirtualNetwork == [uid |-> "vnet1-uid", name |-> "vnet1", namespace |-> "ns1"]

\* A segment of the VirtualNetwork, as the backend lists it.
ParentSegment(path) ==
    [id |-> getSegmentIDFromPath(path), displayName |-> getSegmentIDFromPath(path),
     path |-> path, connectivityPath |-> Tier1Path,
     transportZonePath |-> <<"infra", "tz", "tz1">>,
     tags |-> << [scope |-> TagScopeNCPVNetworkUID, tag |-> VirtualNetwork.uid] >>,
     markedForDelete |-> FALSE]

\* segmentStore.listByParent: the segments indexed under the VirtualNetwork,
\* in any order.
listByParent(items, uid) == Orders(ByIndex(items, TagScopeNCPVNetworkUID, uid))

ParentSegmentStoreApply(items, list) == ApplyList(items, list, "parentSegment")

\* What an operation on a VirtualNetwork leaves and returns.
VNetResult(parentSegments, configs, outcome, err, resync) ==
    [parentSegments |-> parentSegments, configs |-> configs, outcome |-> outcome,
     err |-> err, resync |-> resync]

\* syncParentSegments: the segments listed under the VirtualNetwork are
\* compared with those the backend finds; the desired list is made with
\* len(objects) nil pointers before the found segments; the stale segments are
\* marked for delete, which dereferences each of them, and the changed and
\* stale ones are applied to the store.  The outcomes, for every order of the
\* listing and of the comparison's results.
syncParentSegments(parentSegments, vnet, search, skipNil) ==
    LET finish(existingSegments) ==
            LET desiredSegments == NilPtrs(Len(search.objects)) \o search.objects
                d == CompareResources(SegmentsToComparable(existingSegments),
                                      SegmentsToComparable(desiredSegments), skipNil)
                apply(changed, staled) ==
                    LET changedSegments == ComparableToSegments(changed)
                        staleSegments == ComparableToSegments(staled)
                        r == ParentSegmentStoreApply(parentSegments,
                                 changedSegments \o MarkAll(staleSegments))
                    IN IF HasNil(staleSegments) \/ r.panic
                       THEN [items |-> IF HasNil(staleSegments) THEN parentSegments
                                       ELSE r.items,
                             outcome |-> "panic"]
                       ELSE [items |-> r.items, outcome |-> "ok"]
            IN IF d.panic THEN {[items |-> parentSegments, outcome |-> "panic"]}
               ELSE IF d.changed = {} /\ d.stale = {}
                    THEN {[items |-> parentSegments, outcome |-> "ok"]}
               ELSE {apply(changed, staled) :
                        changed \in Orders(d.changed), staled \in Orders(d.stale)}
    IN IF search.err THEN {[items |-> parentSegments, outcome |-> "err"]}
       ELSE UNION {finish(existingSegments) :
                      existingSegments \in listByParent(parentSegments, vnet.uid)}

resyncParentResources(parentSegments, vnet, search, skipNil) ==
    syncParentSegments(parentSegments, vnet, search, skipNil)

\* What buildParentConfigByVNet returns: a configuration or nil, with an
\* error or none, unless it panics.
Built(outcome, pc) == [outcome |-> outcome, pc |-> pc]

\* buildParentConfigByVNet: no segment listed under the VirtualNetwork gives
\* nil and no error; a failed lookup of the cluster's IP block gives its
\* error; otherwise the path of the first segment is inserted into
\* segmentPaths, a set that was never made, which panics.
buildParentConfigByVNet(segments, vnet, ipBlock) ==
    IF Len(segments) = 0 THEN Built("ok", NilPtr)
    ELSE IF ipBlock = "err" THEN Built("err", NilPtr)
    ELSE Built("panic", NilPtr)

\* parentConfigStore.get: nil when the key is not stored; a stored item is
\* asserted to be a *ParentConfig, which the value that Apply adds is not.
get(configs, id) ==
    IF \A pc \in configs : pc.id # id THEN [panic |-> FALSE, pc |-> NilPtr]
    ELSE Panicked

\* ParentConfig.equals reads the fields of its receiver and of its argument:
\* a nil pointer on either side panics.
equals(c, config) ==
    IF c = NilPtr \/ config = NilPtr THEN Panicked
    ELSE [panic |-> FALSE, equal |-> c = config]

\* CreateOrUpdateVirtualNetwork: the outcomes for one answer of the search
\* and one of the lookup of the cluster's IP block.  An error of
\* buildParentConfigByVNet is answered with nil.
CreateOrUpdateVirtualNetwork(parentSegments, configs, vnet, search, ipBlock, skipNil) ==
    LET build(s, segments) ==
            LET desired == buildParentConfigByVNet(segments, vnet, ipBlock)
                existing == get(configs, vnet.uid)
                eq == equals(desired.pc, existing.pc)
                applied == ParentConfigStoreApply(configs,
                               [isSlice |-> TRUE, obj |-> desired.pc])
            IN IF desired.outcome = "panic"
               THEN VNetResult(s.items, configs, "panic", "nil map", "ok")
               ELSE IF desired.outcome = "err"
               THEN VNetResult(s.items, configs, "ok", "", "ok")
               ELSE IF existing.panic
               THEN VNetResult(s.items, configs, "panic", "type assertion", "ok")
               ELSE IF eq.panic
               THEN VNetResult(s.items, configs, "panic", "nil dereference", "ok")
               ELSE IF eq.equal
               THEN VNetResult(s.items, configs, "ok", "", "ok")
               ELSE IF applied.outcome = "panic"
               THEN VNetResult(s.items, applied.items, "panic", "type assertion", "ok")
               ELSE VNetResult(s.items, applied.items, "ok", "", "ok")
        after(s) ==
            IF s.outcome = "err"
            THEN {VNetResult(s.items, configs, "err", "search failed", "err")}
            ELSE IF s.outcome = "panic"
            THEN {VNetResult(s.items, configs, "panic", "nil dereference", "panic")}
            ELSE {build(s, segments) : segments \in listByParent(s.items, vnet.uid)}
    IN UNION {after(s) : s \in resyncParentResources(parentSegments, vnet, search, skipNil)}

\* The answers of SearchResourceWithoutStore for the segments of the
\* VirtualNetwork.
Search(err, objects) == [err |-> err, objects |-> objects]

SearchAnswers ==
    {Search(TRUE, <<>>), Search(FALSE, <<>>)}
    \cup {Search(FALSE, <<ParentSegment(pp)>>) : pp \in ParentPaths}

CallCreateOrUpdateVirtualNetwork ==
    \E search \in SearchAnswers, ipBlock \in {"ok", "err"}, skipNil \in BOOLEAN :
      \E r \in CreateOrUpdateVirtualNetwork(parentSegmentStore, parentConfigStore,
                                            VirtualNetwork, search, ipBlock, skipNil) :
        /\ parentSegmentStore' = r.parentSegments
        /\ parentConfigStore' = r.configs
        /\ call' = [op |-> "CreateOrUpdateVirtualNetwork", uid |-> VirtualNetwork.uid,
                    arg |-> search.objects, outcome |-> r.outcome, err |-> r.err,
                    resync |-> r.resync, patches |-> <<>>]
        /\ UNCHANGED <<stores, exhaustedIPBlock, startup, workers, bindings>>

\* After InitializeChildSubnet: the stores hold what the backend listed, any
\* binding maps of the listed ChildSubnet (one per id) and, when its child
\* segment exists, its pool, subnet, segment and NAT rules.
Init ==
    \E bindingMaps \in SUBSET ListedBindingMaps, cached \in BOOLEAN :
        /\ UniqueIds(bindingMaps)
        /\ connectionBindingMapStore = bindingMaps
        /\ childSegmentStore = IF cached THEN {ListedSegment} ELSE {}
        /\ ipPoolStore = IF cached THEN {buildIPPool(Listed, ListedTags)} ELSE {}
        /\ ipBlockSubnetStore =
               IF cached THEN {buildIPSubnet(Listed, PrivateIPBlockPath, ListedTags)} ELSE {}
        /\ natRuleStore =
               IF cached THEN SeqToSet(buildPolicySNATRules(Listed, ListedTags)) ELSE {}
        /\ tier1Store = {}
        /\ parentConfigStore = {}
        /\ exhaustedIPBlock = {}
        /\ parentSegmentStore = {}
        /\ startup = Started
        /\ workers = NoWorkers
        /\ bindings = NoBindings
        /\ call = NoCall

Next ==
    \/ CallCreateOrUpdateChildSubnet
    \/ CallCreateChildSubnets
    \/ CallUpdateChildSubnetBindingMaps
    \/ CallApplySegmentConnectionBindingMaps
    \/ CallDeleteChildSubnet
    \/ CallParentConfigStoreApply
    \/ CallCreateOrUpdateVirtualNetwork

Spec == Init /\ [][Next]_vars

TypeOK ==
    /\ UniqueIds(connectionBindingMapStore)
    /\ call.outcome \in {"ok", "err", "panic"}

-----------------------------------------------------------------------------
(* Properties of the service.                                              *)

ServiceOps ==
    {"CreateOrUpdateChildSubnet", "createChildSubnets", "updateChildSubnetBindingMaps",
     "ApplySegmentConnectionBindingMaps", "DeleteChildSubnet"}

AllPatchesOK(c) == \A i \in 1..Len(c.patches) : c.patches[i].ok

\* No call to the backend failed: every PATCH was answered ok and the
\* realized state, if it was listed, held the CIDR and the gateway.
BackendSucceeded(c) == AllPatchesOK(c) /\ c.realized \in {"-", "ok"}

BindingMapFor(items, childSubnet, pp, vlan) ==
    \E bm \in items :
        /\ bm.id = buildSegmentBindingMapID(childSubnet, getSegmentIDFromPath(pp))
        /\ bm.segmentPath = pp
        /\ bm.vlanTrafficTag = vlan

\* C2: a create of a ChildSubnet with a parent configuration and no cached
\* child segment, all calls to the backend succeeding, returns success with the segment path, the gateway
\* and the VLAN in the status, and leaves the pool, the pool subnet, the child
\* segment, one binding map per parent path and the NAT rules in the stores.
C2_CreateFillsStores ==
    [][ (/\ call'.op \in {"CreateOrUpdateChildSubnet", "createChildSubnets"}
         /\ call'.err # "no parent configuration"
         /\ getByChildSubnet(childSegmentStore, call'.uid) = {NilPtr}
         /\ BackendSucceeded(call'))
        => LET cs == ChildSubnet(call'.uid) IN
           /\ call'.outcome = "ok"
           /\ call'.status.set
           /\ call'.status.nsxResourcePath = buildSegmentIntentPath(cs)
           /\ call'.status.ipAddresses = <<Gateway>>
           /\ call'.status.vlan = call'.vlan
           /\ HasKey(ipPoolStore', buildIPPoolID(cs))
           /\ HasKey(ipBlockSubnetStore', buildIPSubnetID(cs))
           /\ HasKey(childSegmentStore', buildSegmentID(cs))
           /\ HasKey(natRuleStore', buildPolicyNATRuleID(cs, 0))
           /\ HasKey(natRuleStore', buildPolicyNATRuleID(cs, 1))
           /\ call'.pc # NilPtr =>
                \A pp \in call'.pc.segmentPaths :
                    BindingMapFor(connectionBindingMapStore', cs, pp, call'.vlan)
      ]_vars

\* C3: the stores change only in a call all of whose PATCH requests were
\* answered ok, at least one being sent; a call in which a PATCH failed leaves
\* every store as it was.
C3_StoresFollowBackend ==
    [][ stores' # stores =>
            /\ call'.op \in ServiceOps
            /\ call'.patches # <<>>
            /\ AllPatchesOK(call')
      ]_vars

\* A PATCH of ApplySegmentConnectionBindingMaps failed; the binding maps it
\* was to add are not in the store and those it was to remove still are.
C3_Witness ==
    /\ call.op = "ApplySegmentConnectionBindingMaps"
    /\ call.err = "patch failed"
    /\ \E i \in 1..Len(call.arg) :
          ~call.arg[i].markedForDelete /\ call.arg[i] \notin connectionBindingMapStore
    /\ \E i \in 1..Len(call.arg) :
          call.arg[i].markedForDelete /\ HasKey(connectionBindingMapStore, call.arg[i].id)

\* The binding maps built for the listed ChildSubnet under a parent
\* configuration with a VLAN.
DesiredBindingMaps(parentConfig, vlan) ==
    {buildBindingMapFor(Listed, parentConfig, pp, vlan, ListedTags) :
        pp \in parentConfig.segmentPaths}

\* C4: when the desired binding maps equal the cached ones,
\* updateChildSubnetBindingMaps returns without a request to the backend and
\* without a change to a store.
C4_UpdateIsIdempotent ==
    [][ (/\ call'.op = "updateChildSubnetBindingMaps"
         /\ DesiredBindingMaps(call'.pc, call'.arg[1])
                = ByIndex(connectionBindingMapStore, TagScopeChildSubnetUID, call'.uid))
        => /\ call'.outcome = "ok"
           /\ call'.patches = <<>>
           /\ stores' = stores
      ]_vars

\* The VLAN tags of the cached binding maps attached to a parent path of the
\* configuration.
UsedVlans(items, parentConfig) ==
    {bm.vlanTrafficTag : bm \in {b \in items : b.segmentPath \in parentConfig.segmentPaths}}

\* C9: the VLAN allocated by createChildSubnets is the smallest tag of the
\* range that no cached binding map attached to a parent path of the
\* configuration uses.
C9_NextVlanIsSmallestFree ==
    [][ (call'.op = "createChildSubnets" /\ call'.err # "no valid VLAN")
        => LET used == UsedVlans(connectionBindingMapStore, call'.pc) IN
           /\ call'.vlan \in 1..MaxVlan
           /\ call'.vlan \notin used
           /\ \A v \in 1..MaxVlan : v < call'.vlan => v \in used
      ]_vars

\* C10: when every tag of the range is used on the parent paths,
\* createChildSubnets returns the allocation error and sends no request.
C10_ExhaustedRangeFails ==
    [][ (/\ call'.op = "createChildSubnets"
         /\ \A v \in 1..MaxVlan : v \in UsedVlans(connectionBindingMapStore, call'.pc))
        => /\ call'.outcome = "err"
           /\ call'.err = "no valid VLAN"
           /\ call'.patches = <<>>
           /\ stores' = stores
      ]_vars

-----------------------------------------------------------------------------
(* The diff on its own: the comparison of any two lists of binding maps    *)
(* through the Comparable conversions.                                     *)

\* Binding maps of the listed ChildSubnet, by parent path and VLAN, and one of
\* them under another display name.
DiffItems ==
    ListedBindingMaps \cup
    {[buildBindingMapFor(Listed, ListedConfig, <<"infra", "segments", "p1">>, 1, ListedTags)
        EXCEPT !.displayName =
                   GenerateDisplayName("renamed", segmentConnectionBindingMapPrefix, "p1")]}

\* Lists of binding maps without a nil and without an id twice.
DiffLists == {l \in ListsUpTo(DiffItems, MaxBatch) : DistinctIds(l)}

CallDiff ==
    \E existing \in DiffLists, desired \in DiffLists, skipNil \in BOOLEAN :
      \E d \in DiffBindingMaps(existing, desired, skipNil) :
        /\ call' = [op |-> "diff", existing |-> existing, desired |-> desired,
                    outcome |-> d.outcome, changed |-> d.changed, staled |-> d.staled,
                    patches |-> <<>>]
        /\ UNCHANGED <<ipPoolStore, ipBlockSubnetStore, childSegmentStore,
                       connectionBindingMapStore, tier1Store, natRuleStore,
                       parentConfigStore, exhaustedIPBlock,
                       parentSegmentStore, startup, workers, bindings>>

DiffNext == CallDiff

DiffSpec == StoreInit /\ [][DiffNext]_vars

Ids(list) == {keyFunc(list[i]) : i \in 1..Len(list)}

\* The value the comparison takes of a binding map.
ValueOf(bm) == Value(SegmentConnectionBindingMapToComparable(bm))

\* C5: the diff returns, and as stale exactly the existing items whose key is
\* absent from the desired list, as changed exactly the desired items that no
\* existing item matches in key and value, and no other item.
C5_DiffIsComplete ==
    call.op = "diff" =>
        /\ call.outcome = "ok"
        /\ ~HasNil(call.staled) /\ ~HasNil(call.changed)
        /\ DistinctIds(call.staled) /\ DistinctIds(call.changed)
        /\ SeqToSet(call.staled) =
               {x \in SeqToSet(call.existing) : keyFunc(x) \notin Ids(call.desired)}
        /\ SeqToSet(call.changed) =
               {e \in SeqToSet(call.desired) :
                   \A x \in SeqToSet(call.existing) :
                       keyFunc(x) = keyFunc(e) => ValueOf(x) # ValueOf(e)}

\* C6: when the diff returns, a desired binding map that has the key of an
\* existing one and another VLAN tag or another parent segment path is
\* reported as changed.
C6_StructuralChangeIsReported ==
    (call.op = "diff" /\ call.outcome = "ok") =>
        \A e \in SeqToSet(call.desired), x \in SeqToSet(call.existing) :
            (/\ keyFunc(x) = keyFunc(e)
             /\ (x.vlanTrafficTag # e.vlanTrafficTag \/ x.segmentPath # e.segmentPath))
            => e \in SeqToSet(call.changed)

-----------------------------------------------------------------------------
(* The hierarchical builder of the subnet binding service (part_004): the  *)
(* tree of hNodes, its merge and its serialization.                        *)

leafType == "SubnetConnectionBindingMap"

\* common.ParseVPCResourcePath: a path /orgs/o/projects/p/vpcs/v/.../id gives
\* the ids of the organization, the project and the VPC and the last segment;
\* any other path is an error.
ParseVPCResourcePath(path) ==
    IF /\ Len(path) >= 6
       /\ path[1] = "orgs" /\ path[3] = "projects" /\ path[5] = "vpcs"
    THEN [err |-> FALSE, OrgID |-> path[2], ProjectID |-> path[4], VPCID |-> path[6],
          ID |-> path[Len(path)]]
    ELSE [err |-> TRUE]

hNode(resourceType, resourceID, childNodes) ==
    [resourceType |-> resourceType, resourceID |-> resourceID, childNodes |-> childNodes]

hLeaf(bindingMap) ==
    [resourceType |-> leafType, resourceID |-> bindingMap.id, bindingMap |-> bindingMap,
     childNodes |-> <<>>]

\* A variant of mergeChildNode that appends the node without looking for a
\* sibling of the same type and id.
appendChildNode(n, node) == [n EXCEPT !.childNodes = Append(@, node)]

RECURSIVE mergeChildNode(_, _)
RECURSIVE mergeChildNodes(_, _)

\* mergeChildNode: a leaf is appended; any other node is merged, child by
\* child, into the first child of n that has its type and id, and appended
\* when there is none.
mergeChildNode(n, node) ==
    IF node.resourceType = leafType
    THEN [n EXCEPT !.childNodes = Append(@, node)]
    ELSE LET same == {i \in 1..Len(n.childNodes) :
                        /\ n.childNodes[i].resourceType = node.resourceType
                        /\ n.childNodes[i].resourceID = node.resourceID}
         IN IF same # {}
            THEN LET i == CHOOSE k \in same : \A j \in same : k <= j
                 IN [n EXCEPT !.childNodes[i] = mergeChildNodes(@, node.childNodes)]
            ELSE [n EXCEPT !.childNodes = Append(@, node)]

\* The loop of mergeChildNode over the child nodes of the merged node.
mergeChildNodes(cn, nodes) ==
    IF nodes = <<>> THEN cn
    ELSE mergeChildNodes(mergeChildNode(cn, Head(nodes)), Tail(nodes))

\* A variant of wrapChildResourceReference whose reference has a tombstone
\* flag.
wrapMarkedResourceReference(targetType, resID, children) ==
    << [type |-> "ChildResourceReference", targetType |-> targetType, id |-> resID,
        markedForDelete |-> FALSE, children |-> children] >>

wrapChildResourceReference(targetType, resID, children) ==
    << [type |-> "ChildResourceReference", targetType |-> targetType, id |-> resID,
        children |-> children] >>

wrapSubnetBindingMap(bindingMap) ==
    [type |-> "ChildSubnetConnectionBindingMap", id |-> bindingMap.id,
     markedForDelete |-> bindingMap.markedForDelete, bindingMap |-> bindingMap]

RECURSIVE buildTree(_)
RECURSIVE buildTrees(_)

\* buildTree: a leaf gives its wrapper, the root the wrappers of its children,
\* any other node one reference that holds the wrappers of its children.
buildTree(n) ==
    IF n.resourceType = leafType THEN <<wrapSubnetBindingMap(n.bindingMap)>>
    ELSE IF n.resourceType = "OrgRoot" THEN buildTrees(n.childNodes)
    ELSE wrapChildResourceReference(n.resourceType, n.resourceID, buildTrees(n.childNodes))

\* The loop of buildTree over the child nodes.
buildTrees(nodes) ==
    IF nodes = <<>> THEN <<>> ELSE buildTree(Head(nodes)) \o buildTrees(Tail(nodes))

buildHNodeFromSubnetConnectionBindingMap(subnetPath, bindingMap) ==
    LET vpcInfo == ParseVPCResourcePath(subnetPath)
    IN IF vpcInfo.err THEN [err |-> TRUE]
       ELSE [err |-> FALSE,
             node |-> hNode("Org", vpcInfo.OrgID, <<
                        hNode("Project", vpcInfo.ProjectID, <<
                          hNode("Vpc", vpcInfo.VPCID, <<
                            hNode("Subnet", vpcInfo.ID, <<hLeaf(bindingMap)>>) >>) >>) >>)]

\* The binding map as the loop of buildOrgRootBySubnetConnectionBindingMaps
\* leaves it: marked as markForDelete says, unless that is nil.
markedAs(bm, markForDelete) ==
    IF markForDelete = "nil" THEN bm
    ELSE [bm EXCEPT !.markedForDelete = (markForDelete = "true")]

\* The path a binding map is placed under.
placeOf(bm, subnetPath) == IF subnetPath = <<>> THEN bm.parentPath ELSE subnetPath

\* The Path of a binding map that has none: a nil *string.
NilPath == <<>>

RECURSIVE mergeBindingMaps(_, _, _, _)

\* The loop of buildOrgRootBySubnetConnectionBindingMaps: a binding map whose
\* path does not parse is logged with its Path, which is dereferenced, and
\* skipped.
mergeBindingMaps(rootNode, bindingMaps, markForDelete, subnetPath) ==
    IF bindingMaps = <<>> THEN [panic |-> FALSE, rootNode |-> rootNode]
    ELSE LET bm == markedAs(Head(bindingMaps), markForDelete)
             orgNode == buildHNodeFromSubnetConnectionBindingMap(placeOf(bm, subnetPath), bm)
         IN IF orgNode.err
            THEN IF bm.path = NilPath THEN [panic |-> TRUE, rootNode |-> rootNode]
                 ELSE mergeBindingMaps(rootNode, Tail(bindingMaps), markForDelete, subnetPath)
            ELSE mergeBindingMaps(mergeChildNode(rootNode, orgNode.node),
                                  Tail(bindingMaps), markForDelete, subnetPath)

\* buildOrgRootBySubnetConnectionBindingMaps: the request holds the
\* serialization of the merged tree.
buildOrgRootBySubnetConnectionBindingMaps(bindingMaps, markForDelete, subnetPath) ==
    LET m == mergeBindingMaps(hNode("OrgRoot", "", <<>>), bindingMaps, markForDelete,
                              subnetPath)
    IN IF m.panic THEN [outcome |-> "panic", orgRoot |-> NilPtr]
       ELSE [outcome |-> "ok",
             orgRoot |-> [type |-> "OrgRoot", children |-> buildTree(m.rootNode)]]

-----------------------------------------------------------------------------
(* The builders on their own: one call of                                  *)
(* buildOrgRootBySubnetConnectionBindingMaps or of WrapHierarchyInfra on   *)
(* any input.                                                              *)

VPCPath(o, p, v, sn) == <<"orgs", o, "projects", p, "vpcs", v, "subnets", sn>>

SubnetPaths ==
    {VPCPath("o1", "p1", "v1", "s1"), VPCPath("o1", "p1", "v1", "s2"),
     VPCPath("o1", "p1", "v2", "s1"), VPCPath("o2", "p1", "v1", "s1")}

\* A parent path that is no VPC path.
BadPath == <<"infra", "segments", "s1">>

SubnetConnectionBindingMap(id, parentPath, path) ==
    [id |-> id, parentPath |-> parentPath, path |-> path, markedForDelete |-> FALSE]

\* Binding maps under the subnet paths, and two whose parent path does not
\* parse, one of them without a Path.
TreeBindingMaps ==
    {SubnetConnectionBindingMap(id, pp, pp \o <<"subnet-connection-binding-maps", id>>) :
        id \in {"b1", "b2"}, pp \in SubnetPaths}
    \cup {SubnetConnectionBindingMap("b1", BadPath, BadPath \o <<"b1">>),
          SubnetConnectionBindingMap("b1", BadPath, NilPath)}

TreeInputs ==
    [op : {"input"}, fn : {"buildOrgRootBySubnetConnectionBindingMaps"},
     bindingMaps : ListsUpTo(TreeBindingMaps, MaxLeaves),
     markForDelete : {"nil", "true", "false"},
     subnetPath : {<<>>, VPCPath("o1", "p1", "v1", "s1")}]

WrapInputs ==
    [op : {"input"}, fn : {"WrapHierarchyInfra"},
     ipPool : {NilPtr, buildIPPool(Listed, ListedTags)},
     ipSubnet : {NilPtr, buildIPSubnet(Listed, PrivateIPBlockPath, ListedTags)},
     segment : {NilPtr, ListedSegment},
     bindingMaps : {l \in ListsUpTo(ListedBindingMaps, 1) : TRUE},
     tier1 : {NilPtr, Tier1("t1")},
     natRules : {<<>>, buildPolicySNATRules(Listed, ListedTags)}]

BuilderInit ==
    /\ ipPoolStore = {}
    /\ ipBlockSubnetStore = {}
    /\ childSegmentStore = {}
    /\ connectionBindingMapStore = {}
    /\ tier1Store = {}
    /\ natRuleStore = {}
    /\ parentConfigStore = {}
    /\ exhaustedIPBlock = {}
    /\ parentSegmentStore = {}
    /\ startup = Started
    /\ workers = NoWorkers
    /\ bindings = NoBindings
    /\ call \in TreeInputs \cup WrapInputs

CallBuildOrgRoot ==
    /\ call.op = "input"
    /\ call.fn = "buildOrgRootBySubnetConnectionBindingMaps"
    /\ LET r == buildOrgRootBySubnetConnectionBindingMaps(
                    call.bindingMaps, call.markForDelete, call.subnetPath)
       IN call' = [op |-> "buildOrgRootBySubnetConnectionBindingMaps",
                   bindingMaps |-> call.bindingMaps,
                   markForDelete |-> call.markForDelete,
                   subnetPath |-> call.subnetPath,
                   outcome |-> r.outcome, orgRoot |-> r.orgRoot, patches |-> <<>>]
    /\ UNCHANGED <<ipPoolStore, ipBlockSubnetStore, childSegmentStore,
                   connectionBindingMapStore, tier1Store, natRuleStore,
                   parentConfigStore, exhaustedIPBlock,
                   parentSegmentStore, startup, workers, bindings>>

CallWrapHierarchyInfra ==
    /\ call.op = "input"
    /\ call.fn = "WrapHierarchyInfra"
    /\ LET r == WrapHierarchyInfra(call.ipPool, call.ipSubnet, call.segment,
                                   call.bindingMaps, call.tier1, BuildDefaultSNAT,
                                   call.natRules)
       IN call' = [op |-> "WrapHierarchyInfra", ipPool |-> call.ipPool,
                   segment |-> call.segment, tier1 |-> call.tier1,
                   natRules |-> call.natRules,
                   outcome |-> IF r.panic THEN "panic" ELSE "ok",
                   infra |-> IF r.panic THEN NilPtr ELSE r.infra, patches |-> <<>>]
    /\ UNCHANGED <<ipPoolStore, ipBlockSubnetStore, childSegmentStore,
                   connectionBindingMapStore, tier1Store, natRuleStore,
                   parentConfigStore, exhaustedIPBlock,
                   parentSegmentStore, startup, workers, bindings>>

\* DeleteChildSubnet from the point where its lookups have given the cached
\* resources and a parent configuration: it marks the pool, the subnet, the
\* segment, the binding maps and the NAT rules, wraps them with the tier-1 as
\* cached and a new default NAT, sends the request and applies the stores.
CallDeleteChildSubnetOnCached ==
    /\ call.op = "input"
    /\ call.fn = "WrapHierarchyInfra"
    /\ call.segment # NilPtr
    /\ \E answer \in PatchAnswers :
          LET r == DeleteChildSubnet(Stores, call.segment, call.bindingMaps, ListedConfig,
                                     call.tier1, call.natRules, call.ipPool,
                                     call.ipSubnet, answer)
          IN /\ SetStores(r.s)
             /\ call' = ServiceCall("DeleteChildSubnet", Listed, ListedConfig,
                                    call.natRules, r)
    /\ UNCHANGED <<parentConfigStore, parentSegmentStore, startup, workers, bindings>>

BuilderNext ==
    \/ CallBuildOrgRoot
    \/ CallWrapHierarchyInfra
    \/ CallDeleteChildSubnetOnCached

BuilderSpec == BuilderInit /\ [][BuilderNext]_vars

\* The binding maps of a call that the loop accepts, in the order given.
Accepted(c) ==
    SelectSeq(c.bindingMaps,
              LAMBDA bm : ~ParseVPCResourcePath(placeOf(bm, c.subnetPath)).err)

\* The ancestors of a path, from the organization down to the subnet.
Ancestors(path) ==
    LET v == ParseVPCResourcePath(path)
    IN << <<"Org", v.OrgID>>, <<"Project", v.ProjectID>>, <<"Vpc", v.VPCID>>,
          <<"Subnet", v.ID>> >>

\* The distinct ancestors of the accepted binding maps: each is a (type, id)
\* pair together with the pairs above it.
DistinctAncestors(c) ==
    {SubSeq(Ancestors(placeOf(bm, c.subnetPath)), 1, k) :
        bm \in SeqToSet(Accepted(c)), k \in 1..4}

RECURSIVE RefPaths(_, _)
\* The references of a serialized tree, each with the references above it.
RefPaths(children, above) ==
    UNION {IF children[i].type = "ChildResourceReference"
           THEN LET here == Append(above, <<children[i].targetType, children[i].id>>)
                IN {here} \cup RefPaths(children[i].children, here)
           ELSE {} : i \in 1..Len(children)}

RECURSIVE CountRefs(_)
\* The number of references of a serialized tree.
CountRefs(children) ==
    IF children = <<>> THEN 0
    ELSE (IF Head(children).type = "ChildResourceReference"
          THEN 1 + CountRefs(Head(children).children) ELSE 0)
         + CountRefs(Tail(children))

RECURSIVE LeafEntries(_, _)
\* The leaf wrappers of a serialized tree, each with the references above it.
LeafEntries(children, above) ==
    IF children = <<>> THEN <<>>
    ELSE (IF Head(children).type = "ChildResourceReference"
          THEN LeafEntries(Head(children).children,
                           Append(above, <<Head(children).targetType, Head(children).id>>))
          ELSE << [at |-> above, id |-> Head(children).id,
                   markedForDelete |-> Head(children).markedForDelete] >>)
         \o LeafEntries(Tail(children), above)

\* The leaf wrappers the accepted binding maps call for.
ExpectedLeaves(c) ==
    LET acc == Accepted(c)
    IN [i \in 1..Len(acc) |->
          [at |-> Ancestors(placeOf(acc[i], c.subnetPath)), id |-> acc[i].id,
           markedForDelete |-> markedAs(acc[i], c.markForDelete).markedForDelete]]

Count(list, e) == Cardinality({i \in 1..Len(list) : list[i] = e})

SameBag(l1, l2) ==
    /\ Len(l1) = Len(l2)
    /\ \A e \in SeqToSet(l1) \cup SeqToSet(l2) : Count(l1, e) = Count(l2, e)

BuiltOrgRoot ==
    call.op = "buildOrgRootBySubnetConnectionBindingMaps" /\ call.outcome = "ok"

\* C7: the request built from a batch holds exactly one reference per distinct
\* ancestor of the accepted binding maps (a (type, id) pair under the pairs
\* above it, along Org, Project, Vpc, Subnet), none twice, and one leaf
\* wrapper per accepted binding map under its subnet; so the tree is the same,
\* up to the order of siblings, in whatever order the batch is given.
C7_TreeIsMinimal ==
    BuiltOrgRoot =>
        /\ RefPaths(call.orgRoot.children, <<>>) = DistinctAncestors(call)
        /\ CountRefs(call.orgRoot.children) = Cardinality(DistinctAncestors(call))
        /\ SameBag(LeafEntries(call.orgRoot.children, <<>>), ExpectedLeaves(call))

\* Two binding maps that share a subnet path were given with one of another
\* path between them: one Org, Project, Vpc and Subnet reference holds both.
C7_Witness ==
    /\ BuiltOrgRoot
    /\ call.subnetPath = <<>>
    /\ Len(call.bindingMaps) = 3
    /\ call.bindingMaps[1].parentPath = call.bindingMaps[3].parentPath
    /\ call.bindingMaps[1].parentPath = VPCPath("o1", "p1", "v1", "s1")
    /\ call.bindingMaps[2].parentPath = VPCPath("o1", "p1", "v2", "s1")
    /\ CountRefs(call.orgRoot.children) = 6
    /\ Len(LeafEntries(call.orgRoot.children, <<>>)) = 3

NothingToWrap(c) ==
    c.ipPool = NilPtr /\ c.segment = NilPtr /\ (c.tier1 = NilPtr \/ Len(c.natRules) = 0)

\* C8: an empty batch yields a nil request and no error, from
\* buildOrgRootBySubnetConnectionBindingMaps given no binding map and from
\* WrapHierarchyInfra given no pool, no segment and no NAT rules to wrap.
C8_EmptyBatchIsNil ==
    /\ (call.op = "buildOrgRootBySubnetConnectionBindingMaps" /\ call.bindingMaps = <<>>)
        => (call.outcome = "ok" /\ call.orgRoot = NilPtr)
    /\ (call.op = "WrapHierarchyInfra" /\ NothingToWrap(call))
        => (call.outcome = "ok" /\ call.infra = NilPtr)

\* C8 as the code has it: WrapHierarchyInfra yields a nil request and no error
\* exactly when it is given nothing to wrap;
\* buildOrgRootBySubnetConnectionBindingMaps given no binding map yields, with
\* no error, a request that is not nil and has no children.
C8_EmptyBatch ==
    /\ (call.op = "buildOrgRootBySubnetConnectionBindingMaps" /\ call.bindingMaps = <<>>)
        => (call.outcome = "ok" /\ call.orgRoot # NilPtr
            /\ call.orgRoot.children = <<>>)
    /\ (call.op = "WrapHierarchyInfra" /\ NothingToWrap(call))
        => (call.outcome = "ok" /\ call.infra = NilPtr)
    /\ (call.op = "WrapHierarchyInfra" /\ ~NothingToWrap(call) /\ call.outcome = "ok")
        => (call.infra # NilPtr /\ Len(call.infra.children) > 0)

\* buildOrgRootBySubnetConnectionBindingMaps was given no binding map and
\* returned a request without children.
C8_Witness ==
    /\ call.op = "buildOrgRootBySubnetConnectionBindingMaps"
    /\ call.bindingMaps = <<>>
    /\ call.outcome = "ok"
    /\ call.orgRoot # NilPtr
    /\ call.orgRoot.children = <<>>

-----------------------------------------------------------------------------
(* Exhausted IP blocks: createChildSubnets against every error of the pool *)
(* PATCH, and DeleteChildSubnet.                                           *)

CallCreateChildSubnetsOnPoolErrors ==
    \E childSubnet \in ChildSubnets :
      \E r \in CreateResultsWith(Stores, childSubnet, ParentConfig({}),
                                 BackendsWith(ApiErrors)) :
        /\ SetStores(r.s)
        /\ call' = ServiceCall("createChildSubnets", childSubnet, ParentConfig({}), <<>>, r)
        /\ UNCHANGED <<parentConfigStore, parentSegmentStore, startup, workers, bindings>>

ExhaustNext ==
    \/ CallCreateChildSubnetsOnPoolErrors
    \/ CallDeleteChildSubnet

ExhaustSpec == Init /\ [][ExhaustNext]_vars

\* The block paths an error reports as without spare capacity: the paths in
\* the messages of its related errors that carry the capacity code.
ReportedExhausted(apiErr) ==
    IF ~apiErr.isApiError THEN {}
    ELSE UNION {{part.value : part \in {x \in SeqToSet(e.errorMessage) : x.key = "path"}} :
                  e \in {x \in SeqToSet(apiErr.relatedErrors) :
                            x.errorCode = NoSpareCapacity}} \ {<<>>}

PoolPatchFailed(c) ==
    /\ c.op = "createChildSubnets"
    /\ Len(c.patches) = 1
    /\ ~c.patches[1].ok

\* C11: when the PATCH of the pool fails with a related error that has the
\* capacity code 520012 and a message with path=[P], createChildSubnets leaves P
\* in the exhausted set and returns the IPBlockExhausted error; after any other
\* failure of that PATCH it returns the error of the PATCH and the exhausted
\* set is as before.
C11_ExhaustionIsRecorded ==
    [][PoolPatchFailed(call') =>
        IF ReportedExhausted(call'.apiErr) # {}
        THEN /\ call'.err = "ip block exhausted"
             /\ \E P \in ReportedExhausted(call'.apiErr) :
                    exhaustedIPBlock' = exhaustedIPBlock \cup {P}
        ELSE /\ call'.err = "patch failed"
             /\ exhaustedIPBlock' = exhaustedIPBlock]_vars

\* C12: of two failed creates in a row that report the same block as
\* exhausted, the second leaves the set as the first left it, with its one
\* entry for the block; and a DeleteChildSubnet whose pool subnet is of a block
\* that is not in the set leaves the set unchanged.
C12_ExhaustedSetIsIdempotent ==
    [][/\ (/\ PoolPatchFailed(call) /\ PoolPatchFailed(call')
           /\ ReportedExhausted(call'.apiErr) # {}
           /\ ReportedExhausted(call'.apiErr) = ReportedExhausted(call.apiErr))
          => /\ exhaustedIPBlock' = exhaustedIPBlock
             /\ ReportedExhausted(call'.apiErr) \cap exhaustedIPBlock' # {}
       /\ (/\ call'.op = "DeleteChildSubnet"
           /\ \A sn \in ByIndex(ipBlockSubnetStore, TagScopeChildSubnetUID, call'.uid) :
                  sn.ipBlockPath \notin exhaustedIPBlock)
          => exhaustedIPBlock' = exhaustedIPBlock]_vars

\* C13: a DeleteChildSubnet for a ChildSubnet whose child segment and pool
\* subnet are cached, the subnet being the only one of its block P, that the
\* backend accepts, succeeds and leaves P out of the exhausted set.
C13_DeleteReleasesBlock ==
    [][(/\ call'.op = "DeleteChildSubnet"
        /\ ByIndex(childSegmentStore, TagScopeChildSubnetUID, call'.uid) # {}
        /\ \E sn \in ByIndex(ipBlockSubnetStore, TagScopeChildSubnetUID, call'.uid) :
              \A o \in ipBlockSubnetStore : o.ipBlockPath = sn.ipBlockPath => o = sn
        /\ AllPatchesOK(call'))
       => (/\ call'.outcome = "ok"
           /\ \A sn \in ByIndex(ipBlockSubnetStore, TagScopeChildSubnetUID, call'.uid) :
                 sn.ipBlockPath \notin exhaustedIPBlock')]_vars

-----------------------------------------------------------------------------
(* Polling of the realized state: acquireSegmentCIDRAndGateway against     *)
(* every series of answers of the realized-state endpoint.                 *)

\* The retry budget handed to acquireSegmentCIDRAndGateway
\* (common.RealizeMaxRetries), scaled down.
RealizeMaxRetries == 2

RealizedEntity(entityType, keys) == [entityType |-> entityType, keys |-> keys]

\* An answer of InfraRealizedStateClient.List: an error, or the realized
\* entities, each with the keys of its extended attributes that parse.
ListAnswer(err, results) == [err |-> err, results |-> results]

ListAnswers ==
    {ListAnswer(TRUE, <<>>), ListAnswer(FALSE, <<>>),
     ListAnswer(FALSE, <<RealizedEntity("IpBlockSubnet", {"cidr", "gateway_ip"})>>),
     ListAnswer(FALSE, <<RealizedEntity("IpBlockSubnet", {"cidr"})>>),
     ListAnswer(FALSE, <<RealizedEntity("IpBlockSubnet", {"gateway_ip"})>>),
     ListAnswer(FALSE, <<RealizedEntity("RealizedLogicalSwitch", {"cidr", "gateway_ip"})>>),
     ListAnswer(FALSE, <<RealizedEntity("IpBlockSubnet", {"cidr"}),
                         RealizedEntity("IpBlockSubnet", {"gateway_ip"})>>)}

\* Whether a pass finds the attribute on an IpBlockSubnet entity.
hasAttribute(m, key) ==
    \E i \in 1..Len(m.results) :
        m.results[i].entityType = "IpBlockSubnet" /\ key \in m.results[i].keys

\* What acquireSegmentCIDRAndGateway returns, with the number of listings made
\* and the seconds slept.
Acquired(cidr, gw, err, passes) ==
    [cidr |-> cidr, gw |-> gw, err |-> err, passes |-> passes, slept |-> 0]

\* A variant of sleep that returns at once.
sleepNot(slept) == slept

\* time.Sleep(30 * time.Second)
sleep(slept) == slept + 30

\* A variant of acquireSegmentCIDRAndGateway that keeps the CIDR and the
\* gateway found by earlier passes.
acquireAcrossPasses(answers, retry) ==
    LET seen(i, key) == \E j \in 1..i : ~answers[j].err /\ hasAttribute(answers[j], key)
        stops == {i \in 1..(retry + 1) :
                    answers[i].err \/ (seen(i, "cidr") /\ seen(i, "gateway_ip"))}
    IN IF stops = {} THEN Acquired(FALSE, FALSE, FALSE, retry + 1)
       ELSE LET i == CHOOSE k \in stops : \A j \in stops : k <= j
            IN IF answers[i].err THEN Acquired(FALSE, FALSE, TRUE, i)
               ELSE Acquired(TRUE, TRUE, FALSE, i)

\* acquireSegmentCIDRAndGateway: one listing per pass; an error of the
\* listing is returned, a pass with the CIDR and the gateway returns them, any
\* other pass is followed by another one while the budget lasts, and nil
\* values with no error are returned when it is used up.
RECURSIVE acquireSegmentCIDRAndGateway(_, _)
acquireSegmentCIDRAndGateway(answers, retry) ==
    LET m == Head(answers)
        cidr == hasAttribute(m, "cidr")
        gw == hasAttribute(m, "gateway_ip")
    IN IF m.err THEN Acquired(FALSE, FALSE, TRUE, 1)
       ELSE IF cidr /\ gw THEN Acquired(TRUE, TRUE, FALSE, 1)
       ELSE IF retry > 0
            THEN LET r == acquireSegmentCIDRAndGateway(Tail(answers), retry - 1)
                 IN [r EXCEPT !.passes = @ + 1, !.slept = sleep(@)]
       ELSE Acquired(FALSE, FALSE, FALSE, 1)

\* The answer createChildSubnets sees.
realizeAnswer(r) ==
    IF r.err THEN "err" ELSE IF r.cidr /\ r.gw THEN "ok" ELSE "timeout"

PollInputs ==
    [op : {"input"}, answers : [1..(RealizeMaxRetries + 1) -> ListAnswers],
     outcome : {"ok"}, patches : {<<>>}]

PollInit ==
    /\ ipPoolStore = {}
    /\ ipBlockSubnetStore = {}
    /\ childSegmentStore = {}
    /\ connectionBindingMapStore = {}
    /\ tier1Store = {}
    /\ natRuleStore = {}
    /\ parentConfigStore = {}
    /\ exhaustedIPBlock = {}
    /\ parentSegmentStore = {}
    /\ startup = Started
    /\ workers = NoWorkers
    /\ bindings = NoBindings
    /\ call \in PollInputs

CallAcquireSegmentCIDRAndGateway ==
    /\ call.op = "input"
    /\ LET r == acquireSegmentCIDRAndGateway(call.answers, RealizeMaxRetries)
       IN call' = [op |-> "acquireSegmentCIDRAndGateway", answers |-> call.answers,
                   result |-> r, outcome |-> realizeAnswer(r), patches |-> <<>>]
    /\ UNCHANGED <<ipPoolStore, ipBlockSubnetStore, childSegmentStore,
                   connectionBindingMapStore, tier1Store, natRuleStore,
                   parentConfigStore, exhaustedIPBlock,
                   parentSegmentStore, startup, workers, bindings>>

PollNext == CallAcquireSegmentCIDRAndGateway

PollSpec == PollInit /\ [][PollNext]_vars

\* A pass that is answered with both attributes on IpBlockSubnet entities.
Complete(m) == ~m.err /\ hasAttribute(m, "cidr") /\ hasAttribute(m, "gateway_ip")

\* The first pass that ends the polling, 0 when none does within the budget.
FirstDecisive(answers) ==
    LET ends == {i \in 1..Len(answers) : answers[i].err \/ Complete(answers[i])}
    IN IF ends = {} THEN 0 ELSE CHOOSE i \in ends : \A j \in ends : i <= j

\* C14: the polling returns the CIDR and the gateway exactly when a pass
\* holds both of them and no earlier pass failed; when no pass of the budget
\* does and none fails it returns no values and no error; an error of the
\* listing is returned by the pass that meets it, with no values and no further
\* listing.
C14_PollingOutcomes ==
    call.op = "acquireSegmentCIDRAndGateway" =>
        LET d == FirstDecisive(call.answers)
            r == [call.result EXCEPT !.slept = 0]
        IN IF d = 0
           THEN r = Acquired(FALSE, FALSE, FALSE, RealizeMaxRetries + 1)
           ELSE IF call.answers[d].err
           THEN r = Acquired(FALSE, FALSE, TRUE, d)
           ELSE r = Acquired(TRUE, TRUE, FALSE, d)

\* The budget ran out although one pass held the CIDR and a later one the
\* gateway.
C14_Witness ==
    /\ call.op = "acquireSegmentCIDRAndGateway"
    /\ call.result.passes = RealizeMaxRetries + 1
    /\ ~call.result.cidr /\ ~call.result.gw /\ ~call.result.err
    /\ hasAttribute(call.answers[1], "cidr")
    /\ hasAttribute(call.answers[2], "gateway_ip")

-----------------------------------------------------------------------------
(* Compensation of createChildSubnets.                                     *)

\* The pool node of a request, as WrapHierarchyIPPool builds it.
PoolNode(patch) == patch.req.children[1]

\* The requests of a call that delete a pool.
PoolDeletes(patches) ==
    {i \in 1..Len(patches) :
        /\ PoolNode(patches[i]).type = "ChildIpAddressPool"
        /\ PoolNode(patches[i]).markedForDelete}

\* The pool PATCH of a call of createChildSubnets was accepted.
PoolCreated(c) ==
    c.op = "createChildSubnets" /\ Len(c.patches) >= 1 /\ c.patches[1].ok

\* C15: when the pool and its subnet were created and the polling of the
\* realized state uses up its budget without values, createChildSubnets
\* returns an error after one compensating request that deletes the pool and
\* its subnet, writes no segment and updates no store.
C15_TimeoutIsCompensated ==
    [][ (PoolCreated(call') /\ call'.realized = "timeout")
        => /\ call'.outcome = "err"
           /\ Len(call'.patches) = 2
           /\ PoolDeletes(call'.patches) = {2}
           /\ \E i \in 1..Len(PoolNode(call'.patches[2]).children) :
                  PoolNode(call'.patches[2]).children[i].markedForDelete
           /\ UNCHANGED <<stores, parentConfigStore, exhaustedIPBlock>>
      ]_vars

\* C16: when the pool and its subnet were created and a later step fails
\* with an error, createChildSubnets submits exactly one compensating
\* request, in which the pool and every subnet it lists are marked for
\* delete, and updates no store.
C16_FailureIsCompensated ==
    [][ (PoolCreated(call') /\ call'.outcome = "err")
        => /\ Cardinality(PoolDeletes(call'.patches)) = 1
           /\ \A k \in PoolDeletes(call'.patches) :
                LET node == PoolNode(call'.patches[k])
                IN /\ Len(node.children) >= 1
                   /\ \A i \in 1..Len(node.children) : node.children[i].markedForDelete
           /\ UNCHANGED <<stores, parentConfigStore, exhaustedIPBlock>>
      ]_vars

\* C17: whatever the compensating request is answered, createChildSubnets
\* returns the error of the step that failed, and a call makes at most one
\* compensating request.
C17_CompensationIsBestEffort ==
    call.op = "createChildSubnets" =>
        /\ Cardinality(PoolDeletes(call.patches)) <= 1
        /\ \A k \in PoolDeletes(call.patches) :
              /\ k = Len(call.patches)
              /\ call.outcome = "err"
              /\ call.err = (IF call.realized = "err" THEN "realization failed"
                             ELSE "patch failed")
              /\ (call.realized = "err" <=> k = 2)

\* The segment PATCH failed and the compensating request failed as well.
C17_Witness ==
    /\ call.op = "createChildSubnets"
    /\ call.err = "patch failed"
    /\ Len(call.patches) = 3
    /\ call.patches[1].ok /\ ~call.patches[2].ok /\ ~call.patches[3].ok
    /\ PoolDeletes(call.patches) = {3}

-----------------------------------------------------------------------------
(* InitializeChildSubnet: the listing tasks, the goroutine that waits for  *)
(* them and the select that ends the function.                             *)

\* What the backend lists for a store: the resources of the listed
\* ChildSubnet.
ListedBy(i) ==
    CASE i = 2 -> {buildIPPool(Listed, ListedTags)}
      [] i = 3 -> {buildIPSubnet(Listed, PrivateIPBlockPath, ListedTags)}
      [] i = 4 -> {ListedSegment}
      [] i = 6 -> {buildBindingMapFor(Listed, ListedConfig, pp, 1, ListedTags) :
                      pp \in ParentPaths}
      [] i = 8 -> SeqToSet(buildPolicySNATRules(Listed, ListedTags))
      [] OTHER -> {}

\* wg.Wait returns although a task has not called wg.Done yet.
waitReturnsEarly(wg) == wg <= 1

\* wg.Wait returns when the counter of the wait group is zero.
waitReturns(wg) == wg = 0

StartupInit ==
    /\ ipPoolStore = {}
    /\ ipBlockSubnetStore = {}
    /\ childSegmentStore = {}
    /\ connectionBindingMapStore = {}
    /\ tier1Store = {}
    /\ natRuleStore = {}
    /\ parentConfigStore = {}
    /\ exhaustedIPBlock = {}
    /\ parentSegmentStore = {}
    /\ startup = Startup("go", 1, [i \in Tasks |-> "unstarted"], ListingTasks,
                         FALSE, FALSE, {}, 0)
    /\ workers = NoWorkers
    /\ bindings = NoBindings
    /\ call = NoCall

StoresUnchanged ==
    UNCHANGED <<ipPoolStore, ipBlockSubnetStore, childSegmentStore,
                connectionBindingMapStore, tier1Store, natRuleStore,
                parentConfigStore, exhaustedIPBlock, parentSegmentStore, workers,
                bindings, call>>

\* The next go statement of InitializeChildSubnet starts a listing task.
GoInitializeStore ==
    /\ startup.main = "go" /\ startup.next <= ListingTasks
    /\ startup' = [startup EXCEPT !.task[startup.next] = "listing", !.next = @ + 1]
    /\ StoresUnchanged

\* The last go statement starts the goroutine that waits for the tasks, and
\* the function reaches its select.
GoWait ==
    /\ startup.main = "go" /\ startup.next = ListingTasks + 1
    /\ startup' = [startup EXCEPT !.main = "select"]
    /\ StoresUnchanged

\* A listing task has filled its store and returns; its deferred wg.Done
\* runs.
ListingDone(i) ==
    /\ startup.task[i] = "listing"
    /\ startup' = [startup EXCEPT !.task[i] = "done", !.wg = @ - 1]
    /\ ipPoolStore' = IF i = 2 THEN ListedBy(i) ELSE ipPoolStore
    /\ ipBlockSubnetStore' = IF i = 3 THEN ListedBy(i) ELSE ipBlockSubnetStore
    /\ childSegmentStore' = IF i = 4 THEN ListedBy(i) ELSE childSegmentStore
    /\ parentSegmentStore' = IF i = 5 THEN ListedBy(i) ELSE parentSegmentStore
    /\ connectionBindingMapStore' = IF i = 6 THEN ListedBy(i) ELSE connectionBindingMapStore
    /\ tier1Store' = IF i = 7 THEN ListedBy(i) ELSE tier1Store
    /\ natRuleStore' = IF i = 8 THEN ListedBy(i) ELSE natRuleStore
    /\ UNCHANGED <<parentConfigStore, exhaustedIPBlock, workers, bindings, call>>

\* The listing of a task fails; the task sends the error on fatalErrors,
\* which has no buffer, and waits for its receiver.
ListingFailed(i) ==
    /\ startup.task[i] = "listing"
    /\ startup' = [startup EXCEPT !.task[i] = "sending", !.failed = @ \cup {i}]
    /\ StoresUnchanged

\* The select of InitializeChildSubnet receives the error of a task, closes
\* fatalErrors and returns the error.
SelectFatalError(i) ==
    /\ startup.main = "select" /\ startup.task[i] = "sending" /\ ~startup.closed
    /\ startup' = [startup EXCEPT !.main = "err", !.err = i, !.closed = TRUE,
                                  !.task[i] = "reported"]
    /\ StoresUnchanged

\* A task whose error was received returns; its deferred wg.Done runs.
ReportedReturns(i) ==
    /\ startup.task[i] = "reported"
    /\ startup' = [startup EXCEPT !.task[i] = "done", !.wg = @ - 1]
    /\ StoresUnchanged

\* A task that sends its error after fatalErrors was closed panics; its
\* deferred wg.Done runs while the panic unwinds.
SendOnClosed(i) ==
    /\ startup.task[i] = "sending" /\ startup.closed
    /\ startup' = [startup EXCEPT !.task[i] = "panicked", !.wg = @ - 1]
    /\ StoresUnchanged

\* The waiting goroutine: wg.Wait returns and wgDone is closed.
WaitGroupWait ==
    /\ startup.main # "go" /\ ~startup.wgDone
    /\ waitReturns(startup.wg)
    /\ startup' = [startup EXCEPT !.wgDone = TRUE]
    /\ StoresUnchanged

\* The select of InitializeChildSubnet finds wgDone closed and the function
\* returns the service and no error.
SelectDone ==
    /\ startup.main = "select" /\ startup.wgDone
    /\ startup' = [startup EXCEPT !.main = "ok"]
    /\ StoresUnchanged

StartupNext ==
    \/ GoInitializeStore
    \/ GoWait
    \/ \E i \in Tasks : ListingDone(i)
    \/ \E i \in Tasks : ListingFailed(i)
    \/ \E i \in Tasks : SelectFatalError(i)
    \/ \E i \in Tasks : ReportedReturns(i)
    \/ \E i \in Tasks : SendOnClosed(i)
    \/ WaitGroupWait
    \/ SelectDone

StartupSpec == StartupInit /\ [][StartupNext]_vars

\* C18: InitializeChildSubnet starts the eight listing tasks before it
\* waits; it returns no error only when every task has completed and none has
\* failed, and it returns an error only when a task reported it, and then the
\* error of that task.
C18_StartupWaitsForListings ==
    /\ startup.main # "go" => \A i \in Tasks : startup.task[i] # "unstarted"
    /\ startup.main = "ok" =>
          /\ \A i \in Tasks : startup.task[i] = "done"
          /\ startup.failed = {}
    /\ startup.main = "err" =>
          /\ startup.err \in startup.failed
          /\ startup.task[startup.err] \in {"reported", "done"}

\* The function returned the error of a task while another task was still
\* listing.
C18_Witness ==
    /\ startup.main = "err"
    /\ \E i \in Tasks : startup.task[i] = "listing"
    /\ Cardinality(startup.failed) = 1

-----------------------------------------------------------------------------
(* The parent configuration of a VirtualNetwork.                           *)

\* A call of CreateOrUpdateVirtualNetwork whose resync went through.
Resynced(c) == c.op = "CreateOrUpdateVirtualNetwork" /\ c.resync = "ok"

\* C19: when the parent segment store lists no segment of the
\* VirtualNetwork, CreateOrUpdateVirtualNetwork returns nil without failing
\* and leaves the parent configuration store as it was.
C19_NoSegmentsIsNoError ==
    [][ (/\ Resynced(call')
         /\ ByIndex(parentSegmentStore', TagScopeNCPVNetworkUID, call'.uid) = {})
        => /\ call'.outcome = "ok"
           /\ parentConfigStore' = parentConfigStore
      ]_vars

\* C20: when the backend lists a segment of the VirtualNetwork, the lookup
\* of the cluster's IP block succeeds and no configuration is stored for the
\* VirtualNetwork, CreateOrUpdateVirtualNetwork stores the configuration it
\* computed and returns nil.
C20_NewConfigIsPersisted ==
    [][ (/\ call'.op = "CreateOrUpdateVirtualNetwork"
         /\ call'.arg # <<>>
         /\ ~HasKey(parentConfigStore, call'.uid))
        => /\ call'.outcome = "ok"
           /\ HasKey(parentConfigStore', call'.uid)
      ]_vars

-----------------------------------------------------------------------------
(* Validation of the parent configuration.                                 *)

\* A call that looks the parent configuration up: CreateOrUpdateChildSubnet,
\* and DeleteChildSubnet when the child segment of the ChildSubnet is cached.
LooksUpParentConfig(c, segments) ==
    \/ c.op = "CreateOrUpdateChildSubnet"
    \/ /\ c.op = "DeleteChildSubnet"
       /\ getByChildSubnet(segments, c.uid) # {NilPtr}

\* C21: a call that finds no parent configuration stored for the namespace
\* and the parent of its ChildSubnet returns the error of the lookup, sends no
\* request to the backend and changes no store.
C21_MissingParentConfigIsAnError ==
    [][ (/\ LooksUpParentConfig(call', childSegmentStore)
         /\ getByNamespaceName(parentConfigStore, ChildSubnet(call'.uid).parent,
                               ChildSubnet(call'.uid).namespace) = {NilPtr})
        => /\ call'.outcome = "err"
           /\ call'.err = "no parent configuration"
           /\ call'.patches = <<>>
           /\ UNCHANGED <<stores, parentConfigStore, exhaustedIPBlock>>
      ]_vars

\* DeleteChildSubnet found the child segment cached and no parent
\* configuration.
C21_Witness ==
    /\ call.op = "DeleteChildSubnet"
    /\ getByChildSubnet(childSegmentStore, call.uid) # {NilPtr}
    /\ call.err = "no parent configuration"
    /\ call.patches = <<>>

\* ------------------------------------------------------------------------
\* Workers on the shared state.  ChildSubnetService has no mutex: each Add and
\* Delete of a store's Indexer is atomic, a store's Apply is a loop of them
\* with nothing held across the loop, and the exhausted set is read and then
\* written with nothing held at all.
\* ------------------------------------------------------------------------

MaxApply == 2
Workers == {1, 2}

RaceMaps ==
    WithMark({BuildSegmentConnectionBindingMap(id, id, <<"infra", "segments", "p1">>,
                                               1, StoreTags) : id \in StoreIds})

\* What a worker runs: Apply of a list on the binding map store, the record
\* of an exhausted block (createChildSubnets) or its release
\* (DeleteChildSubnet).  pc is the position in the list, or past the Has of
\* the set; seen is the answer of that Has.
Worker(kind, list, path) ==
    [kind |-> kind, list |-> list, path |-> path, pc |-> 1, seen |-> FALSE,
     status |-> "running"]

WorkerCalls ==
    {Worker("Apply", l, PrivateIPBlockPath) :
        l \in UNION {[1..k -> RaceMaps] : k \in 1..MaxApply}}
    \cup {Worker(k, <<>>, p) : k \in {"record", "release"},
                               p \in {PublicIPBlockPath, PrivateIPBlockPath}}

RaceInit ==
    /\ ipPoolStore = {}
    /\ ipBlockSubnetStore = {}
    /\ childSegmentStore = {}
    /\ connectionBindingMapStore = {}
    /\ tier1Store = {}
    /\ natRuleStore = {}
    /\ parentConfigStore = {}
    /\ exhaustedIPBlock = {}
    /\ parentSegmentStore = {}
    /\ startup = Started
    /\ workers \in [Workers -> WorkerCalls]
    /\ bindings = NoBindings
    /\ call = NoCall

RaceUnchanged ==
    UNCHANGED <<ipPoolStore, ipBlockSubnetStore, childSegmentStore, tier1Store,
                natRuleStore, parentConfigStore, parentSegmentStore, startup, bindings,
                call>>

\* One turn of the loop of SegmentConnectionBindingMapStore.Apply.
ApplyNext(w) ==
    LET me == workers[w]
        r == SegmentConnectionBindingMapStoreApply(connectionBindingMapStore,
                                                   <<me.list[me.pc]>>)
    IN /\ me.kind = "Apply"
       /\ me.status = "running"
       /\ connectionBindingMapStore' = r.items
       /\ workers' = [workers EXCEPT ![w] =
              [me EXCEPT !.pc = me.pc + 1,
                         !.status = IF r.panic THEN "panicked"
                                    ELSE IF me.pc = Len(me.list) THEN "done"
                                    ELSE "running"]]
       /\ UNCHANGED exhaustedIPBlock
       /\ RaceUnchanged

\* exhaustedIPBlock.Has of createChildSubnets and of DeleteChildSubnet.
SetHas(w) ==
    LET me == workers[w]
    IN /\ me.kind \in {"record", "release"}
       /\ me.status = "running"
       /\ me.pc = 1
       /\ workers' = [workers EXCEPT ![w] =
              [me EXCEPT !.pc = 2, !.seen = me.path \in exhaustedIPBlock]]
       /\ UNCHANGED <<connectionBindingMapStore, exhaustedIPBlock>>
       /\ RaceUnchanged

\* exhaustedIPBlock.Insert of createChildSubnets, when the Has was false.
SetInsert(w) ==
    LET me == workers[w]
    IN /\ me.kind = "record"
       /\ me.status = "running"
       /\ me.pc = 2
       /\ exhaustedIPBlock' = IF ~me.seen /\ exhaustedIPBlockMade
                              THEN exhaustedIPBlock \cup {me.path}
                              ELSE exhaustedIPBlock
       /\ workers' = [workers EXCEPT ![w] =
              [me EXCEPT !.pc = 3,
                         !.status = IF ~me.seen /\ ~exhaustedIPBlockMade
                                    THEN "panicked" ELSE "done"]]
       /\ UNCHANGED connectionBindingMapStore
       /\ RaceUnchanged

\* exhaustedIPBlock.Delete of DeleteChildSubnet, when the Has was true.
SetDelete(w) ==
    LET me == workers[w]
    IN /\ me.kind = "release"
       /\ me.status = "running"
       /\ me.pc = 2
       /\ exhaustedIPBlock' = IF me.seen THEN exhaustedIPBlock \ {me.path}
                              ELSE exhaustedIPBlock
       /\ workers' = [workers EXCEPT ![w] = [me EXCEPT !.pc = 3, !.status = "done"]]
       /\ UNCHANGED connectionBindingMapStore
       /\ RaceUnchanged

RaceNext ==
    \E w \in Workers : ApplyNext(w) \/ SetHas(w) \/ SetInsert(w) \/ SetDelete(w)

RaceSpec == RaceInit /\ [][RaceNext]_vars

\* The shared state after the whole call of a worker, run alone.
Alone(shared, me) ==
    CASE me.kind = "Apply" ->
            [shared EXCEPT !.maps =
                SegmentConnectionBindingMapStoreApply(shared.maps, me.list).items]
      [] me.kind = "record" ->
            [shared EXCEPT !.set = recordExhausted(shared.set, me.path).set]
      [] me.kind = "release" ->
            [shared EXCEPT !.set = releaseExhausted(shared.set, me.path)]

\* The shared states that the sequential orders of the workers' calls give.
Sequential ==
    LET empty == [maps |-> {}, set |-> {}]
    IN {Alone(Alone(empty, workers[first]), workers[second]) :
           <<first, second>> \in {<<1, 2>>, <<2, 1>>}}

AllReturned == \A w \in Workers : workers[w].status # "running"

\* C22: once the workers' calls have returned, the binding map store and the
\* exhausted set hold what some sequential order of the same calls leaves.
C22_ContentsAreSequential ==
    AllReturned =>
        [maps |-> connectionBindingMapStore, set |-> exhaustedIPBlock] \in Sequential

\* ------------------------------------------------------------------------
\* Resource ids.
\* ------------------------------------------------------------------------

\* The objects of a store that belong to the ChildSubnet of the given UID.
OwnedBy(items, uid) == ByIndex(items, TagScopeChildSubnetUID, uid)

ResultNormal == [requeue |-> FALSE, requeueAfter |-> 0]
ResultRequeue == [requeue |-> TRUE, requeueAfter |-> 0]
\* A variant of ResultRequeueAfter10sec: the requeue that waits for nothing.
ResultRequeueAtOnce == [requeue |-> TRUE, requeueAfter |-> 0]

ResultRequeueAfter10sec == [requeue |-> TRUE, requeueAfter |-> 10]

reasonDependencyNotReady == "DependencyNotReady"
reasonConfigureFailure == "ConfigureFailed"
msgGetSubnetCR == "Unable to get Subnet CR %s"
msgGetSubnetSetCR == "Unable to get SubnetSet CR %s"
msgGetNSXSubnetsBySubnet == "Subnet CR %s is not realized on NSX"
msgGetNSXSubnetsBySubnetSet == "SubnetSet CR %s is not realized on NSX"
msgChildWorkAsParent == "Subnet CR %s is working as target by %s"
msgParentWorkAsChild == "Target Subnet CR %s is attached by %s"
msgRealizeSubnetBinding == "Failed to realize SubnetConnectionBindingMap %s on NSX"

\* fmt.Sprintf and fmt.Errorf: the format and its arguments.
Sprintf(format, args) == <<format>> \o args
NoError == <<>>

CRNames == {"b1", "b2"}
SubnetNames == {"s1", "s2"}
SubnetSetName == "ss"
UIDOf(name) ==
    CASE name = "b0" -> "uid-b0" [] name = "b1" -> "uid-b1" [] name = "b2" -> "uid-b2"

\* A SubnetConnectionBindingMap CR: its target is a Subnet, or else a SubnetSet.
BindingCR(name, deleting, subnetName, targetSubnetName) ==
    [name |-> name, uid |-> UIDOf(name), deleting |-> deleting, subnetName |-> subnetName,
     targetSubnetName |-> targetSubnetName,
     targetSubnetSetName |-> IF targetSubnetName = "" THEN SubnetSetName ELSE ""]

VpcSubnet(id) == [id |-> id]

\* A binding map of the binding store: the CR it was made for, and the child
\* and the parent subnet it connects.
NSXBinding(crName, child, parent) ==
    [crName |-> crName, crUID |-> UIDOf(crName), child |-> child, parent |-> parent]

NoCondition == [status |-> "-", reason |-> "-", message |-> <<>>]
Condition(status, reason, message) ==
    [status |-> status, reason |-> reason, message |-> message]

\* What the API server, the subnet service and NSX answer during one call.
Availability == {"missing", "unrealized", "realized"}
\* The answers that give every Subnet the same availability.
AnswersOf(availability) ==
    [getErr |-> FALSE, subnet |-> [n \in SubnetNames |-> availability],
     subnetSet |-> "realized", nsxErr |-> FALSE]

\* When the CR cannot be fetched, nothing else is asked.
Answers ==
    [getErr : {FALSE}, subnet : [SubnetNames -> Availability],
     subnetSet : {"missing", "realized"}, nsxErr : BOOLEAN]
    \cup {[AnswersOf("realized") EXCEPT !.getErr = TRUE]}

\* The binding service.
GetSubnetConnectionBindingMapsByParentSubnet(store, subnet) ==
    {bm \in store : bm.parent = subnet.id}
GetSubnetConnectionBindingMapsByChildSubnet(store, subnet) ==
    {bm \in store : bm.child = subnet.id}
GetCRNameBySubnetConnectionBindingMap(bm) == bm.crName
ListSubnetConnectionBindingMapCRUIDsInStore(store) == {bm.crUID : bm \in store}
DeleteSubnetConnectionBindingMapsByCRName(store, name) ==
    {bm \in store : bm.crName # name}
DeleteSubnetConnectionBindingMapsByCRUID(store, uid) ==
    {bm \in store : bm.crUID # uid}
DeleteMultiSubnetConnectionBindingMapsByCRs(store, uids) ==
    {bm \in store : bm.crUID \notin uids}
CreateOrUpdateSubnetConnectionBindingMap(store, cr, childSubnet, parentSubnets) ==
    DeleteSubnetConnectionBindingMapsByCRUID(store, cr.uid)
        \cup {NSXBinding(cr.name, childSubnet.id, parentSubnets[i].id) :
                 i \in 1..Len(parentSubnets)}

\* The subnet service: the NSX subnets of a realized Subnet or SubnetSet CR.
ListSubnetCreatedBySubnet(answers, name) ==
    IF answers.subnet[name] = "realized" THEN <<VpcSubnet(name)>> ELSE <<>>
ListSubnetCreatedBySubnetSet(answers, name) ==
    IF answers.subnetSet = "realized" THEN <<VpcSubnet("ss-1"), VpcSubnet("ss-2")>>
    ELSE <<>>

Validated(subnets, msg, err) == [subnets |-> subnets, msg |-> msg, err |-> err]

\* A variant of validateVpcSubnetsBySubnetCR: the nested check of the target
\* looks at the maps it is the target of, as the check of the child does.
validateWithOneLookup(store, answers, name, isTarget) ==
    LET subnets == ListSubnetCreatedBySubnet(answers, name)
        bms == GetSubnetConnectionBindingMapsByParentSubnet(store, subnets[1])
    IN IF answers.subnet[name] = "missing"
       THEN {Validated(<<>>, Sprintf(msgGetSubnetCR, <<name>>),
                       Sprintf("failed to get subnet", <<name>>))}
       ELSE IF Len(subnets) = 0
       THEN {Validated(<<>>, Sprintf(msgGetNSXSubnetsBySubnet, <<name>>),
                       Sprintf("not found NSX VpcSubnets", <<name>>))}
       ELSE IF bms # {}
       THEN {Validated(<<>>,
                       Sprintf(msgChildWorkAsParent,
                               <<name, GetCRNameBySubnetConnectionBindingMap(bm)>>),
                       Sprintf("already works as target",
                               <<name, GetCRNameBySubnetConnectionBindingMap(bm)>>)) :
                bm \in bms}
       ELSE {Validated(subnets, <<>>, NoError)}

\* The results validateVpcSubnetsBySubnetCR can give: bms[0] is any of the
\* blocking binding maps.
validateVpcSubnetsBySubnetCR(store, answers, name, isTarget) ==
    LET subnets == ListSubnetCreatedBySubnet(answers, name)
        bms == IF isTarget
               THEN GetSubnetConnectionBindingMapsByChildSubnet(store, subnets[1])
               ELSE GetSubnetConnectionBindingMapsByParentSubnet(store, subnets[1])
    IN IF answers.subnet[name] = "missing"
       THEN {Validated(<<>>, Sprintf(msgGetSubnetCR, <<name>>),
                       Sprintf("failed to get subnet", <<name>>))}
       ELSE IF Len(subnets) = 0
       THEN {Validated(<<>>, Sprintf(msgGetNSXSubnetsBySubnet, <<name>>),
                       Sprintf("not found NSX VpcSubnets", <<name>>))}
       ELSE IF bms # {}
       THEN {Validated(<<>>,
                       Sprintf(IF isTarget THEN msgParentWorkAsChild
                               ELSE msgChildWorkAsParent,
                               <<name, GetCRNameBySubnetConnectionBindingMap(bm)>>),
                       Sprintf(IF isTarget THEN "already attached"
                               ELSE "already works as target",
                               <<name, GetCRNameBySubnetConnectionBindingMap(bm)>>)) :
                bm \in bms}
       ELSE {Validated(subnets, <<>>, NoError)}

validateVpcSubnetsBySubnetSetCR(answers, name) ==
    LET subnets == ListSubnetCreatedBySubnetSet(answers, name)
    IN IF answers.subnetSet = "missing"
       THEN Validated(<<>>, Sprintf(msgGetSubnetSetCR, <<name>>),
                      Sprintf("failed to get SubnetSet", <<name>>))
       ELSE IF Len(subnets) = 0
       THEN Validated(<<>>, Sprintf(msgGetNSXSubnetsBySubnetSet, <<name>>),
                      Sprintf("no existing NSX VpcSubnet", <<name>>))
       ELSE Validated(subnets, <<>>, NoError)

Dependency(childSubnet, parentSubnets, msg, err) ==
    [childSubnet |-> childSubnet, parentSubnets |-> parentSubnets, msg |-> msg,
     err |-> err]

validateDependency(store, answers, bindingMap) ==
    UNION {
        IF child.err # NoError THEN {Dependency(NilPtr, <<>>, child.msg, child.err)}
        ELSE IF bindingMap.targetSubnetName # ""
        THEN {IF parent.err # NoError
              THEN Dependency(NilPtr, <<>>, parent.msg, parent.err)
              ELSE Dependency(child.subnets[1], parent.subnets, <<>>, NoError) :
                 parent \in validateVpcSubnetsBySubnetCR(store, answers,
                                                         bindingMap.targetSubnetName, TRUE)}
        ELSE LET parent == validateVpcSubnetsBySubnetSetCR(answers,
                                                           bindingMap.targetSubnetSetName)
             IN {IF parent.err # NoError
                 THEN Dependency(NilPtr, <<>>, parent.msg, parent.err)
                 ELSE Dependency(child.subnets[1], parent.subnets, <<>>, NoError)} :
        child \in validateVpcSubnetsBySubnetCR(store, answers, bindingMap.subnetName, FALSE)}

\* A request to the binding service.
Request(op, ids) == [op |-> op, ids |-> ids]

\* The outcome of a call: the cluster it leaves, what it returns, the requests
\* it made to the binding service, and the error of its validation, if any.
Reconciled(b, result, err, requests, validation) ==
    [b |-> b, result |-> result, err |-> err, requests |-> requests,
     validation |-> validation]

\* Reconcile of the request for the CR of the given name.
Reconcile(b, name, answers) ==
    LET found == {cr \in b.crs : cr.name = name}
        bindingMapCR == CHOOSE cr \in found : TRUE
        byName == Request("DeleteSubnetConnectionBindingMapsByCRName", {name})
        byUID == Request("DeleteSubnetConnectionBindingMapsByCRUID", {bindingMapCR.uid})
        createOrUpdate ==
            Request("CreateOrUpdateSubnetConnectionBindingMap", {bindingMapCR.uid})
    IN IF answers.getErr THEN {Reconciled(b, ResultRequeue, <<"unable to get CR">>, <<>>, NoError)}
       ELSE IF found = {}
       THEN IF answers.nsxErr
            THEN {Reconciled(b, ResultRequeue, <<"NSX failure">>, <<byName>>, NoError)}
            ELSE {Reconciled(
                     [b EXCEPT !.store =
                          DeleteSubnetConnectionBindingMapsByCRName(b.store, name)],
                     ResultNormal, NoError, <<byName>>, NoError)}
       ELSE IF bindingMapCR.deleting
       THEN IF answers.nsxErr
            THEN {Reconciled(b, ResultRequeue, <<"NSX failure">>, <<byUID>>, NoError)}
            ELSE {Reconciled(
                     [b EXCEPT !.store =
                          DeleteSubnetConnectionBindingMapsByCRUID(b.store,
                                                                   bindingMapCR.uid)],
                     ResultNormal, NoError, <<byUID>>, NoError)}
       ELSE {IF d.err # NoError
             THEN Reconciled(
                     [b EXCEPT !.conditions[name] =
                          Condition("False", reasonDependencyNotReady, d.msg)],
                     ResultRequeueAfter10sec, d.err, <<>>, d.err)
             ELSE IF answers.nsxErr
             THEN Reconciled(
                     [b EXCEPT !.conditions[name] =
                          Condition("False", reasonConfigureFailure,
                                    Sprintf(msgRealizeSubnetBinding, <<name>>))],
                     ResultRequeue, <<"NSX failure">>, <<createOrUpdate>>, NoError)
             ELSE Reconciled(
                     [b EXCEPT !.conditions[name] = Condition("True", "", <<>>),
                               !.store = CreateOrUpdateSubnetConnectionBindingMap(
                                             b.store, bindingMapCR, d.childSubnet,
                                             d.parentSubnets)],
                     ResultNormal, NoError, <<createOrUpdate>>, NoError) :
                d \in validateDependency(b.store, answers, bindingMapCR)}

\* A variant of listBindingMapIDsFromCRs: the listing that finds no CR.
listNoBindingMapIDs(crs) == {}

listBindingMapIDsFromCRs(crs) == {cr.uid : cr \in crs}

\* CollectGarbage returns nothing: a failure is logged.
CollectGarbage(b, listErr, nsxErr) ==
    LET bindingMapIdSetByCRs == listBindingMapIDsFromCRs(b.crs)
        bindingMapIdSetInStore == ListSubnetConnectionBindingMapCRUIDsInStore(b.store)
        stale == bindingMapIdSetInStore \ bindingMapIdSetByCRs
        request == Request("DeleteMultiSubnetConnectionBindingMapsByCRs", stale)
    IN IF listErr THEN Reconciled(b, ResultNormal, NoError, <<>>, NoError)
       ELSE IF nsxErr THEN Reconciled(b, ResultNormal, NoError, <<request>>, NoError)
       ELSE Reconciled(
               [b EXCEPT !.store =
                    DeleteMultiSubnetConnectionBindingMapsByCRs(b.store, stale)],
               ResultNormal, NoError, <<request>>, NoError)

\* The CRs of the cluster, and the binding maps found on NSX at startup:
\* those of b0 were made for a CR that is gone.
BindingCRs ==
    {BindingCR("b1", deleting, subnetName, targetSubnetName) :
        deleting \in BOOLEAN, subnetName \in SubnetNames,
        targetSubnetName \in SubnetNames \cup {""}}
    \cup {BindingCR("b2", FALSE, "s2", "s1")}

ListedBindings == {NSXBinding("b0", "s1", "s2"), NSXBinding("b1", "s2", "ss-1")}

BindingInit ==
    /\ ipPoolStore = {}
    /\ ipBlockSubnetStore = {}
    /\ childSegmentStore = {}
    /\ connectionBindingMapStore = {}
    /\ tier1Store = {}
    /\ natRuleStore = {}
    /\ parentConfigStore = {}
    /\ exhaustedIPBlock = {}
    /\ parentSegmentStore = {}
    /\ startup = Started
    /\ workers = NoWorkers
    /\ \E crs \in SUBSET BindingCRs, store \in SUBSET ListedBindings :
          /\ \A c1, c2 \in crs : c1.name = c2.name => c1 = c2
          /\ bindings = [crs |-> crs, store |-> store,
                         conditions |-> [n \in CRNames |-> NoCondition]]
    /\ call = NoCall

BindingUnchanged ==
    UNCHANGED <<stores, parentConfigStore, exhaustedIPBlock, parentSegmentStore, startup,
                workers>>

CallReconcile ==
    \E name \in CRNames, answers \in Answers :
      \E r \in Reconcile(bindings, name, answers) :
        /\ bindings' = r.b
        /\ call' = [op |-> "Reconcile", name |-> name, getErr |-> answers.getErr,
                    nsxErr |-> answers.nsxErr, validation |-> r.validation,
                    result |-> r.result, err |-> r.err, requests |-> r.requests]
        /\ BindingUnchanged

CallCollectGarbage ==
    \E listErr \in BOOLEAN, nsxErr \in BOOLEAN :
      LET r == CollectGarbage(bindings, listErr, nsxErr) IN
        /\ bindings' = r.b
        /\ call' = [op |-> "CollectGarbage", listErr |-> listErr, nsxErr |-> nsxErr,
                    requests |-> r.requests]
        /\ BindingUnchanged

CallValidateVpcSubnetsBySubnetCR ==
    \E name \in SubnetNames, isTarget \in BOOLEAN, availability \in Availability :
      \E v \in validateVpcSubnetsBySubnetCR(bindings.store, AnswersOf(availability), name,
                                            isTarget) :
        /\ call' = [op |-> "validateVpcSubnetsBySubnetCR", name |-> name,
                    isTarget |-> isTarget, subnet |-> availability,
                    subnets |-> v.subnets,
                    msg |-> v.msg, err |-> v.err]
        /\ UNCHANGED bindings
        /\ BindingUnchanged

BindingNext == CallReconcile \/ CallCollectGarbage \/ CallValidateVpcSubnetsBySubnetCR

BindingSpec == BindingInit /\ [][BindingNext]_vars

\* C24: Reconcile requeues with the error and asks NSX for nothing when the CR
\* cannot be fetched; deletes by CR name when the CR is not found, and by CR
\* UID when it carries a deletion timestamp, with a normal result on success
\* and a requeue with the error on failure; requeues after 10 seconds with the
\* error of the validation, without a create or update, when the dependencies
\* are not valid; requeues with the error when the create or update fails;
\* and otherwise returns normally with the Ready condition set.
C24_ReconcileOutcomes ==
    [][ call'.op = "Reconcile" =>
          LET c == call'
              found == {cr \in bindings.crs : cr.name = c.name}
              bindingMapCR == CHOOSE cr \in found : TRUE
              failed == c.result = ResultRequeue /\ c.err # NoError
              normal == c.result = ResultNormal /\ c.err = NoError
          IN IF c.getErr THEN failed /\ c.requests = <<>> /\ bindings' = bindings
             ELSE IF found = {}
             THEN /\ c.requests =
                        <<Request("DeleteSubnetConnectionBindingMapsByCRName", {c.name})>>
                  /\ IF c.nsxErr THEN failed ELSE normal
             ELSE IF bindingMapCR.deleting
             THEN /\ c.requests =
                        <<Request("DeleteSubnetConnectionBindingMapsByCRUID",
                                  {bindingMapCR.uid})>>
                  /\ IF c.nsxErr THEN failed ELSE normal
             ELSE IF c.validation # NoError
             THEN /\ c.result.requeue
                  /\ c.result.requeueAfter = 10
                  /\ c.err = c.validation
                  /\ c.requests = <<>>
                  /\ bindings'.store = bindings.store
             ELSE /\ c.requests =
                        <<Request("CreateOrUpdateSubnetConnectionBindingMap",
                                  {bindingMapCR.uid})>>
                  /\ IF c.nsxErr THEN failed
                     ELSE normal /\ bindings'.conditions[c.name].status = "True"
      ]_vars

\* A Reconcile whose validation failed.
C24_Witness ==
    /\ call.op = "Reconcile"
    /\ call.validation # NoError
    /\ call.result.requeueAfter = 10
    /\ bindings.conditions[call.name].reason = reasonDependencyNotReady

\* C25: validateVpcSubnetsBySubnetCR rejects, with a message and an error, a
\* Subnet CR that cannot be fetched or is not realized; it rejects, with a
\* message naming the CR of a blocking binding map, a child subnet that is the
\* target of a binding map and a target subnet that is the child of one; and
\* otherwise it returns the realized subnets, no message and no error.
C25_NoNestedBinding ==
    call.op = "validateVpcSubnetsBySubnetCR" =>
        LET blocking == IF call.isTarget
                        THEN {bm \in bindings.store : bm.child = call.name}
                        ELSE {bm \in bindings.store : bm.parent = call.name}
            rejected == call.err # NoError /\ call.msg # <<>> /\ call.subnets = <<>>
        IN IF call.subnet # "realized" THEN rejected
           ELSE IF blocking # {}
           THEN /\ rejected
                /\ Len(call.msg) = 3
                /\ call.msg[2] = call.name
                /\ \E bm \in blocking : call.msg[3] = bm.crName
           ELSE /\ call.subnets = <<VpcSubnet(call.name)>>
                /\ call.msg = <<>>
                /\ call.err = NoError

\* A realized target subnet is rejected: it is the child of a binding map.
C25_Witness ==
    /\ call.op = "validateVpcSubnetsBySubnetCR"
    /\ call.isTarget
    /\ call.subnet = "realized"
    /\ call.err # NoError
    /\ \E bm \in bindings.store : bm.child = call.name

\* C26: CollectGarbage requests nothing when the CRs cannot be listed; else it
\* requests, once, the deletion of the CR UIDs that the binding store has and
\* the listed CRs have not, so that no binding map of a listed CR is deleted;
\* a failed deletion changes nothing.
C26_GarbageIsStaleOnly ==
    [][ call'.op = "CollectGarbage" =>
          LET listed == {cr.uid : cr \in bindings.crs}
              stored == {bm.crUID : bm \in bindings.store}
          IN IF call'.listErr
             THEN call'.requests = <<>> /\ bindings' = bindings
             ELSE /\ call'.requests =
                        <<Request("DeleteMultiSubnetConnectionBindingMapsByCRs",
                                  stored \ listed)>>
                  /\ \A bm \in bindings.store :
                        bm.crUID \in listed => bm \in bindings'.store
                  /\ call'.nsxErr => bindings' = bindings
      ]_vars

\* A sweep that deleted the binding map of a CR that is gone and kept that of
\* a listed CR.
C26_Witness ==
    /\ call.op = "CollectGarbage"
    /\ ~call.listErr
    /\ ~call.nsxErr
    /\ call.requests[1].ids # {}
    /\ \E bm \in bindings.store : \E cr \in bindings.crs : bm.crUID = cr.uid

\* ------------------------------------------------------------------------
\* The request of an update of the binding maps.
\* ------------------------------------------------------------------------

\* The binding map wrappers of a request, in their order.
SentBindingMaps(req) ==
    SelectSeq(req.children[1].children,
              LAMBDA w : w.type = "ChildSegmentConnectionBindingMap")

\* C27: an update that finds a difference submits one request, whose binding
\* maps are the changed ones, not marked for delete, followed by the stale
\* ones, marked for delete, each once and nothing else.
C27_RequestIsChangedThenStale ==
    [][ LET c == call'
            comparable(S) == {SegmentConnectionBindingMapToComparable(o) : o \in S}
            existing ==
                comparable(ByIndex(connectionBindingMapStore, TagScopeChildSubnetUID, c.uid))
            desired == comparable(DesiredBindingMaps(c.pc, c.arg[1]))
            changed == {e \in desired :
                           \A x \in existing : Key(x) = Key(e) => Value(x) # Value(e)}
            stale == {x \in existing : \A e \in desired : Key(e) # Key(x)}
            sent == SentBindingMaps(c.patches[1].req)
            live == {i \in 1..Len(sent) : ~sent[i].markedForDelete}
            marked == {i \in 1..Len(sent) : sent[i].markedForDelete}
        IN (/\ c.op = "updateChildSubnetBindingMaps"
            /\ changed \cup stale # {})
           => /\ c.outcome # "panic"
              /\ Len(c.patches) = 1
              /\ Len(sent) = Cardinality(changed) + Cardinality(stale)
              /\ {sent[i].id : i \in live} = {Key(e) : e \in changed}
              /\ {sent[i].id : i \in marked} = {Key(x) : x \in stale}
              /\ \A i \in live, j \in marked : i < j
      ]_vars

\* ------------------------------------------------------------------------
\* The request built from a batch of binding maps.
\* ------------------------------------------------------------------------

\* C28: a binding map whose parent path does not parse is skipped: the call
\* returns, with no error, the request that holds one leaf wrapper for every
\* other binding map of the batch.
C28_BadLeafIsSkipped ==
    call.op = "buildOrgRootBySubnetConnectionBindingMaps" =>
        /\ call.outcome = "ok"
        /\ SameBag(LeafEntries(call.orgRoot.children, <<>>), ExpectedLeaves(call))

RECURSIVE Wrappers(_)
\* All the wrappers of a serialized tree.
Wrappers(children) ==
    UNION {{children[i]} \cup
           (IF children[i].type = "ChildResourceReference"
            THEN Wrappers(children[i].children) ELSE {}) : i \in 1..Len(children)}

AncestorTypes == <<"Org", "Project", "Vpc", "Subnet">>

\* The wrappers of the request are references and leaf wrappers, nested as
\* the ancestors are; a leaf wrapper has the id and the tombstone flag of its
\* binding map.
Serialized(c) ==
    /\ c.orgRoot.type = "OrgRoot"
    /\ \A w \in Wrappers(c.orgRoot.children) :
          w.type \in {"ChildResourceReference", "ChildSubnetConnectionBindingMap"}
    /\ \A i \in 1..Len(c.orgRoot.children) :
          c.orgRoot.children[i].type = "ChildResourceReference"
    /\ \A path \in RefPaths(c.orgRoot.children, <<>>) :
          /\ Len(path) <= 4
          /\ \A k \in 1..Len(path) : path[k][1] = AncestorTypes[k]
    /\ SameBag(LeafEntries(c.orgRoot.children, <<>>), ExpectedLeaves(c))

\* C29 as stated: the root gives no wrapper, every ancestor one reference
\* with its target type, its id, its tombstone flag and its children, every
\* binding map one leaf wrapper with its id and its tombstone flag.
C29_ReferencesCarryTombstone ==
    BuiltOrgRoot =>
        /\ Serialized(call)
        /\ \A w \in Wrappers(call.orgRoot.children) :
              w.type = "ChildResourceReference" =>
                  {"targetType", "id", "markedForDelete", "children"} \subseteq DOMAIN w

\* C29 as the code has it: a reference carries its target type, its id and
\* its children, and no tombstone flag; only the leaf wrappers carry one.
C29_Serialization ==
    BuiltOrgRoot =>
        /\ Serialized(call)
        /\ \A w \in Wrappers(call.orgRoot.children) :
              IF w.type = "ChildResourceReference"
              THEN DOMAIN w = {"type", "targetType", "id", "children"}
              ELSE {"id", "markedForDelete"} \subseteq DOMAIN w

\* A batch under two VPCs, marked for delete, was serialized.
C29_Witness ==
    /\ BuiltOrgRoot
    /\ call.markForDelete = "true"
    /\ Len(call.bindingMaps) = 3
    /\ CountRefs(call.orgRoot.children) = 6
    /\ Len(LeafEntries(call.orgRoot.children, <<>>)) = 3
    /\ \A i \in 1..3 : LeafEntries(call.orgRoot.children, <<>>)[i].markedForDelete

\* ------------------------------------------------------------------------
\* The budget of the realized-state polling.
\* ------------------------------------------------------------------------

-----------------------------------------------------------------------------
(* The stored parent configuration.                                        *)

\* The paths of the segments that a search of the backend found.
PathsOf(objects) == {objects[i].path : i \in DOMAIN objects}

\* C31: after CreateOrUpdateVirtualNetwork for a VirtualNetwork of which the
\* backend lists a segment, a configuration is stored that is found by the
\* UID and by the namespace and name of the VirtualNetwork; its segment paths
\* are those of the segments found, its tier-1 and transport zone are those
\* of the first segment, and both IP-block paths are the cluster's block.
C31_StoredConfigIsRetrievable ==
    [][ (/\ call'.op = "CreateOrUpdateVirtualNetwork"
         /\ call'.arg # <<>>
         /\ call'.err # "search failed")
        => /\ call'.outcome = "ok"
           /\ \E pc \in parentConfigStore' :
                /\ keyFunc(pc) = call'.uid
                /\ getByNamespaceName(parentConfigStore', VirtualNetwork.name,
                                      VirtualNetwork.namespace) = {pc}
                /\ pc.segmentPaths = PathsOf(call'.arg)
                /\ pc.tier1Path = call'.arg[1].connectivityPath
                /\ pc.transportZonePath = call'.arg[1].transportZonePath
                /\ pc.publicIPBlockPath = pc.privateIPBlockPath
      ]_vars

-----------------------------------------------------------------------------
(* The stores after DeleteChildSubnet.                                     *)

\* Every wrapper below the given children, at any depth, each before the
\* wrappers below it.
RECURSIVE AllWrappers(_)
AllWrappers(children) ==
    IF Len(children) = 0 THEN <<>>
    ELSE <<Head(children)>> \o AllWrappers(Head(children).children)
             \o AllWrappers(Tail(children))

\* The wrappers of the given kinds in a request.
SentIn(req, types) ==
    SelectSeq(AllWrappers(req.children), LAMBDA w : w.type \in types)

\* The wrappers of a request that are not marked for delete, out of those of
\* the given kinds.
Unmarked(req, types) ==
    SelectSeq(SentIn(req, types), LAMBDA w : ~w.markedForDelete)

\* C32: a DeleteChildSubnet for a ChildSubnet whose child segment is cached,
\* that the backend accepts, succeeds with one request in which the pool, the
\* pool subnet, the segment, the binding maps and the NAT rules are marked for
\* delete, and leaves nothing of the ChildSubnet in the stores; without a
\* cached child segment it returns nil, sends nothing and changes no store.
C32_DeleteEmptiesStores ==
    [][ call'.op = "DeleteChildSubnet" =>
        IF ByIndex(childSegmentStore, TagScopeChildSubnetUID, call'.uid) # {}
        THEN AllPatchesOK(call') =>
             /\ call'.outcome = "ok"
             /\ Len(call'.patches) = 1
             /\ Unmarked(call'.patches[1].req,
                         {"IpAddressPool", "IpAddressPoolSubnet", "Segment",
                          "SegmentConnectionBindingMap", "PolicyNatRule"}) = <<>>
             /\ \A st \in {ipPoolStore', ipBlockSubnetStore', childSegmentStore',
                           connectionBindingMapStore', natRuleStore'} :
                    ByIndex(st, TagScopeChildSubnetUID, call'.uid) = {}
        ELSE /\ call'.outcome = "ok"
             /\ call'.patches = <<>>
             /\ UNCHANGED stores
      ]_vars

-----------------------------------------------------------------------------
(* The conditions of a SubnetConnectionBindingMap: the status updaters     *)
(* against every list of conditions the status can hold.                   *)

\* The latest reading of the clock.
MaxNow == 2

\* The types of condition: v1alpha1.Ready, and one that the controller does
\* not write.
Ready == "Ready"
ConditionTypes == {Ready, "Other"}

StatusCondition(type, status, reason, message, time) ==
    [type |-> type, status |-> status, reason |-> reason, message |-> message,
     lastTransitionTime |-> time]

\* A variant of SameCondition: the status alone is compared.
SameStatus(cond, condition) == cond.status = condition.status

\* The comparison of updateBindingMapCondition between a condition of the
\* status and the new one, both of the same type.
SameCondition(cond, condition) ==
    /\ cond.status = condition.status
    /\ cond.reason = condition.reason
    /\ cond.message = condition.message

\* The loop of updateBindingMapCondition from the i-th condition of the
\* status on: it returns at a condition of the new one's type that says the
\* same, drops one that says something else and keeps the other types after
\* the new condition.
RECURSIVE conditionLoop(_, _, _, _)
conditionLoop(conditions, condition, i, newConditions) ==
    IF i > Len(conditions) THEN [returned |-> FALSE, conditions |-> newConditions]
    ELSE IF conditions[i].type = condition.type
    THEN IF SameCondition(conditions[i], condition)
         THEN [returned |-> TRUE, conditions |-> conditions]
         ELSE conditionLoop(conditions, condition, i + 1, newConditions)
    ELSE conditionLoop(conditions, condition, i + 1, Append(newConditions, conditions[i]))

\* updateBindingMapCondition: the conditions the object is left with and the
\* status updates sent; an error of the update is logged only.
updateBindingMapCondition(conditions, condition, now) ==
    LET stamped == [condition EXCEPT !.lastTransitionTime = now]
        l == conditionLoop(conditions, stamped, 1, <<stamped>>)
    IN IF l.returned THEN [conditions |-> conditions, updates |-> <<>>]
       ELSE [conditions |-> l.conditions, updates |-> <<l.conditions>>]

updateBindingMapStatusWithUnreadyCondition(conditions, reason, msg, now) ==
    updateBindingMapCondition(conditions, StatusCondition(Ready, "False", reason, msg, 0), now)

updateBindingMapStatusWithReadyCondition(conditions, now) ==
    updateBindingMapCondition(conditions, StatusCondition(Ready, "True", "", <<>>, 0), now)

\* The reasons and messages Reconcile hands to the updaters.
UnreadyReasons == {reasonDependencyNotReady, reasonConfigureFailure}
UnreadyMessages ==
    {Sprintf(msgGetSubnetCR, <<"s1">>), Sprintf(msgRealizeSubnetBinding, <<"b1">>)}

\* The Ready conditions the updaters write, and a condition of another type.
ReadyConditions ==
    {StatusCondition(Ready, "True", "", <<>>, 0)}
    \cup {StatusCondition(Ready, "False", reason, msg, 0) :
             reason \in UnreadyReasons, msg \in UnreadyMessages}
OtherCondition == StatusCondition("Other", "True", "", <<>>, 0)

\* The lists of conditions a status holds: at most one Ready condition, which
\* is all the updaters leave, before or after at most one of another type.
ConditionLists ==
    {<<>>, <<OtherCondition>>}
    \cup UNION {{<<c>>, <<c, OtherCondition>>, <<OtherCondition, c>>} : c \in ReadyConditions}

ConditionInit ==
    /\ ipPoolStore = {}
    /\ ipBlockSubnetStore = {}
    /\ childSegmentStore = {}
    /\ connectionBindingMapStore = {}
    /\ tier1Store = {}
    /\ natRuleStore = {}
    /\ parentConfigStore = {}
    /\ exhaustedIPBlock = {}
    /\ parentSegmentStore = {}
    /\ startup = Started
    /\ workers = NoWorkers
    /\ \E conditions \in ConditionLists :
          bindings = [crs |-> {}, store |-> {}, conditions |-> conditions]
    /\ call = NoCall

\* What a call of an updater leaves: the conditions of the object, and in the
\* call the condition asked for and the updates sent.
ConditionCall(op, condition, now, r, updateErr) ==
    /\ bindings' = [bindings EXCEPT !.conditions = r.conditions]
    /\ call' = [op |-> op, condition |-> condition, now |-> now,
                updates |-> r.updates, updateErr |-> updateErr, outcome |-> "ok"]
    /\ BindingUnchanged

CallUpdateBindingMapStatusWithUnreadyCondition ==
    \E reason \in UnreadyReasons, msg \in UnreadyMessages, now \in 1..MaxNow,
       updateErr \in BOOLEAN :
        ConditionCall("updateBindingMapStatusWithUnreadyCondition",
                      Condition("False", reason, msg), now,
                      updateBindingMapStatusWithUnreadyCondition(
                          bindings.conditions, reason, msg, now),
                      updateErr)

CallUpdateBindingMapStatusWithReadyCondition ==
    \E now \in 1..MaxNow, updateErr \in BOOLEAN :
        ConditionCall("updateBindingMapStatusWithReadyCondition",
                      Condition("True", "", <<>>), now,
                      updateBindingMapStatusWithReadyCondition(bindings.conditions, now),
                      updateErr)

ConditionNext ==
    \/ CallUpdateBindingMapStatusWithUnreadyCondition
    \/ CallUpdateBindingMapStatusWithReadyCondition

ConditionSpec == ConditionInit /\ [][ConditionNext]_vars

ConditionOps ==
    {"updateBindingMapStatusWithUnreadyCondition",
     "updateBindingMapStatusWithReadyCondition"}

\* The conditions of a list that are not of the given type, in their order.
OfOtherTypes(conditions, type) == SelectSeq(conditions, LAMBDA c : c.type # type)

\* The positions of a list that hold a condition of the given type.
OfType(conditions, type) == {i \in DOMAIN conditions : conditions[i].type = type}

\* C33: after either updater the status holds one Ready condition, which
\* carries the status, reason and message asked for, and the conditions of
\* other types it held; when the Ready condition it held already said the
\* same, the status is as it was and no update is sent, otherwise one update
\* with the new conditions is.
C33_OneReadyCondition ==
    [][ call'.op \in ConditionOps =>
        LET old == bindings.conditions
            new == bindings'.conditions
            asked == call'.condition
            said(c) == Condition(c.status, c.reason, c.message)
        IN /\ Cardinality(OfType(new, Ready)) = 1
           /\ \A i \in OfType(new, Ready) : said(new[i]) = asked
           /\ OfOtherTypes(new, Ready) = OfOtherTypes(old, Ready)
           /\ IF \E i \in OfType(old, Ready) : said(old[i]) = asked
              THEN new = old /\ call'.updates = <<>>
              ELSE /\ call'.updates = <<new>>
                   /\ \A i \in OfType(new, Ready) :
                          new[i].lastTransitionTime = call'.now
      ]_vars

\* An unready condition replaced a Ready one that said something else, next
\* to a condition of another type.
C33_Witness ==
    /\ call.op = "updateBindingMapStatusWithUnreadyCondition"
    /\ Len(call.updates) = 1
    /\ Len(bindings.conditions) = 2
    /\ bindings.conditions[2] = OtherCondition
    /\ bindings.conditions[1].status = "False"
    /\ bindings.conditions[1].reason = reasonConfigureFailure

-----------------------------------------------------------------------------
(* The event filters of the watches on SubnetConnectionBindingMaps: the    *)
(* predicates against every event on the objects of the watch.             *)

BindingMapKind == "SubnetConnectionBindingMap"

\* An object of an event: its kind, its spec and the conditions of its status.
EventObject(kind, spec, conditions) ==
    [kind |-> kind, spec |-> spec, conditions |-> conditions]

\* A variant of IsObjectReady: a condition of type Ready of any status counts.
HasReadyCondition(conditions) ==
    \E i \in DOMAIN conditions : conditions[i].type = Ready

\* IsObjectReady: some condition is of type Ready with status True.
IsObjectReady(conditions) ==
    \E i \in DOMAIN conditions :
        conditions[i].type = Ready /\ conditions[i].status = "True"

IsObjectUpdateToReady(oldConditions, newConditions) ==
    ~IsObjectReady(oldConditions) /\ IsObjectReady(newConditions)

\* What a predicate answers: whether the event is admitted, unless it panics.
Admits(admitted) == [panic |-> FALSE, admitted |-> admitted]

\* PredicateFuncsWithBindingMapUpdateDelete.  The results of the type
\* assertions of UpdateFunc are not tested: an object of another kind leaves
\* a nil pointer whose status is read.
PredicateFuncsWithBindingMapUpdateDelete(ev) ==
    IF ev.type = "update"
    THEN IF ev.objectOld.kind # BindingMapKind \/ ev.objectNew.kind # BindingMapKind
         THEN [panic |-> TRUE, admitted |-> FALSE]
         ELSE Admits(IsObjectReady(ev.objectOld.conditions)
                         # IsObjectReady(ev.objectNew.conditions))
    ELSE IF ev.type = "create" THEN Admits(FALSE)
    ELSE IF ev.type = "delete" THEN Admits(TRUE)
    ELSE Admits(FALSE)

\* A variant of PredicateFuncsBindingMaps: an update is admitted when
\* anything of the object differs.
PredicateFuncsAnyChange(ev) ==
    IF ev.type = "update" THEN Admits(ev.objectOld # ev.objectNew)
    ELSE Admits(ev.type \in {"create", "delete"})

\* PredicateFuncsBindingMaps: an update is admitted when either object is not
\* a SubnetConnectionBindingMap or the specs differ.
PredicateFuncsBindingMaps(ev) ==
    IF ev.type = "update"
    THEN IF ev.objectOld.kind # BindingMapKind \/ ev.objectNew.kind # BindingMapKind
         THEN Admits(TRUE)
         ELSE Admits(ev.objectOld.spec # ev.objectNew.spec)
    ELSE IF ev.type = "create" THEN Admits(TRUE)
    ELSE IF ev.type = "delete" THEN Admits(TRUE)
    ELSE Admits(FALSE)

\* The specs and the conditions of the objects of the events.
EventSpecs ==
    {[subnetName |-> "s1", targetSubnetName |-> target, vlanTrafficTag |-> 201] :
        target \in {"s2", ""}}
    \cup {[subnetName |-> "s1", targetSubnetName |-> "s2", vlanTrafficTag |-> 202]}
EventConditions ==
    {<<>>, <<OtherCondition>>,
     <<StatusCondition(Ready, "True", "", <<>>, 0)>>,
     <<OtherCondition, StatusCondition(Ready, "True", "", <<>>, 0)>>,
     <<StatusCondition(Ready, "False", reasonDependencyNotReady,
                       Sprintf(msgGetSubnetCR, <<"s1">>), 0)>>}
EventObjects ==
    {EventObject(BindingMapKind, spec, conditions) :
        spec \in EventSpecs, conditions \in EventConditions}

\* The events of a watch on SubnetConnectionBindingMaps.
Events ==
    {[type |-> "update", objectOld |-> old, objectNew |-> new] :
        old \in EventObjects, new \in EventObjects}
    \cup {[type |-> type, objectOld |-> o, objectNew |-> o] :
             type \in {"create", "delete", "generic"}, o \in EventObjects}

PredicateInit ==
    /\ ipPoolStore = {}
    /\ ipBlockSubnetStore = {}
    /\ childSegmentStore = {}
    /\ connectionBindingMapStore = {}
    /\ tier1Store = {}
    /\ natRuleStore = {}
    /\ parentConfigStore = {}
    /\ exhaustedIPBlock = {}
    /\ parentSegmentStore = {}
    /\ startup = Started
    /\ workers = NoWorkers
    /\ \E ev \in Events :
          bindings = [crs |-> {}, store |-> {}, conditions |-> <<>>, event |-> ev]
    /\ call = NoCall

PredicateCall(op, r) ==
    /\ call' = [op |-> op, admitted |-> r.admitted,
                outcome |-> IF r.panic THEN "panic" ELSE "ok"]
    /\ UNCHANGED bindings
    /\ BindingUnchanged

CallPredicateFuncsWithBindingMapUpdateDelete ==
    PredicateCall("PredicateFuncsWithBindingMapUpdateDelete",
                  PredicateFuncsWithBindingMapUpdateDelete(bindings.event))

CallPredicateFuncsBindingMaps ==
    PredicateCall("PredicateFuncsBindingMaps", PredicateFuncsBindingMaps(bindings.event))

CallIsObjectUpdateToReady ==
    /\ bindings.event.type = "update"
    /\ PredicateCall("IsObjectUpdateToReady",
                     Admits(IsObjectUpdateToReady(bindings.event.objectOld.conditions,
                                                  bindings.event.objectNew.conditions)))

PredicateNext ==
    \/ CallPredicateFuncsWithBindingMapUpdateDelete
    \/ CallPredicateFuncsBindingMaps
    \/ CallIsObjectUpdateToReady

PredicateSpec == PredicateInit /\ [][PredicateNext]_vars

\* Whether a list of conditions holds one of type Ready with status True.
ReadyIn(conditions) ==
    \E i \in DOMAIN conditions :
        /\ conditions[i].type = Ready
        /\ conditions[i].status = "True"

\* C34: PredicateFuncsWithBindingMapUpdateDelete admits an update exactly
\* when the old and the new binding map differ in readiness, admits every
\* delete and rejects every create and generic event; IsObjectUpdateToReady
\* is true exactly when the old conditions are not ready and the new ones are.
C34_ReadinessChangeIsAdmitted ==
    LET ev == bindings.event
        wasReady == ReadyIn(ev.objectOld.conditions)
        isReady == ReadyIn(ev.objectNew.conditions)
    IN /\ call.op = "PredicateFuncsWithBindingMapUpdateDelete"
          => /\ call.outcome = "ok"
             /\ call.admitted <=>
                   \/ ev.type = "update" /\ wasReady # isReady
                   \/ ev.type = "delete"
       /\ call.op = "IsObjectUpdateToReady"
          => (call.admitted <=> (~wasReady /\ isReady))

\* An update from a binding map that is not ready, with conditions, to one
\* that is ready was admitted.
C34_Witness ==
    /\ call.op = "PredicateFuncsWithBindingMapUpdateDelete"
    /\ bindings.event.type = "update"
    /\ Len(bindings.event.objectOld.conditions) = 1
    /\ ~ReadyIn(bindings.event.objectOld.conditions)
    /\ ReadyIn(bindings.event.objectNew.conditions)
    /\ call.admitted

\* C35: PredicateFuncsBindingMaps admits an update exactly when the specs of
\* the old and the new binding map differ, admits every create and delete and
\* rejects every generic event.
C35_SpecChangeIsAdmitted ==
    LET ev == bindings.event
    IN call.op = "PredicateFuncsBindingMaps"
       => /\ call.outcome = "ok"
          /\ call.admitted <=>
                \/ ev.type = "update" /\ ev.objectOld.spec # ev.objectNew.spec
                \/ ev.type \in {"create", "delete"}

\* An update that changed the status only was rejected.
C35_Witness ==
    /\ call.op = "PredicateFuncsBindingMaps"
    /\ bindings.event.type = "update"
    /\ bindings.event.objectOld.spec = bindings.event.objectNew.spec
    /\ bindings.event.objectOld.conditions # bindings.event.objectNew.conditions
    /\ ~call.admitted

-----------------------------------------------------------------------------
(* The fatalErrors channel of InitializeChildSubnet.                       *)

\* C36: when two or more listing tasks fail, no task sends on fatalErrors
\* after InitializeChildSubnet has closed it: no send of a task ends in the
\* panic of a send on a closed channel.
C36_NoSendOnClosedChannel ==
    Cardinality(startup.failed) >= 2
        => \A i \in Tasks : ~(startup.closed /\ startup.task[i] = "panicked")

-----------------------------------------------------------------------------
(* VLAN tags of the ChildSubnets of one parent.                            *)

\* The tags that the cached binding maps of other ChildSubnets than uid use
\* on the given parent segment paths.
VlansOfOthers(items, uid, paths) ==
    {bm.vlanTrafficTag :
        bm \in {b \in items \ OwnedBy(items, uid) : b.segmentPath \in paths}}

\* C37: VLAN tags are unique per parent: the tag that createChildSubnets
\* allocates for a ChildSubnet is not the tag of a binding map that another
\* ChildSubnet has on a parent segment path of the same configuration.
C37_VlanIsUniquePerParent ==
    [][ (call'.op = "createChildSubnets" /\ call'.err # "no valid VLAN")
        => call'.vlan \notin VlansOfOthers(connectionBindingMapStore, call'.uid,
                                           call'.pc.segmentPaths)
      ]_vars

-----------------------------------------------------------------------------
(* The wrappers of a hierarchical request.                                 *)

\* No two children of the list wrap the same kind and id.
DistinctChildren(children) ==
    \A i, j \in DOMAIN children :
        (children[i].type = children[j].type /\ children[i].id = children[j].id) => i = j

\* Under the root and under every wrapper of a request, at most one child
\* wraps a given kind and id.
OneWrapperEach(req) ==
    /\ DistinctChildren(req.children)
    /\ \A k \in DOMAIN AllWrappers(req.children) :
          DistinctChildren(AllWrappers(req.children)[k].children)

\* C38: every request the service sends holds at most one child wrapper per
\* kind and id under any parent; the compensating delete of createChildSubnets
\* holds the pool subnet once, marked for delete.
C38_OneWrapperPerResource ==
    call.op \in ServiceOps
        => \A i \in DOMAIN call.patches : OneWrapperEach(call.patches[i].req)

-----------------------------------------------------------------------------
(* Deletes mark the leaves only.                                           *)

\* Whether every wrapper of the list is marked for delete as said.
AllMarked(wrappers, marked) ==
    \A k \in DOMAIN wrappers : wrappers[k].markedForDelete = marked

\* C39: a delete marks the leaves and never what they hang from: no
\* reference to an Org, Project, Vpc or Subnet in a request built by
\* buildOrgRootBySubnetConnectionBindingMaps is marked for delete, whatever
\* markForDelete is; and in the request of DeleteChildSubnet the tier-1 and
\* its default NAT are not marked for delete while every NAT rule is.
C39_ParentsAreNotTombstoned ==
    /\ BuiltOrgRoot =>
          \A w \in Wrappers(call.orgRoot.children) :
              w.type = "ChildResourceReference" =>
                  \/ "markedForDelete" \notin DOMAIN w
                  \/ ~w.markedForDelete
    /\ call.op = "DeleteChildSubnet" =>
          \A i \in DOMAIN call.patches :
              /\ AllMarked(SentIn(call.patches[i].req, {"ChildTier1", "ChildPolicyNat"}),
                           FALSE)
              /\ AllMarked(SentIn(call.patches[i].req, {"ChildPolicyNatRule"}), TRUE)

\* DeleteChildSubnet sent a request with the tier-1, its default NAT and
\* the NAT rules of the ChildSubnet, the rules marked for delete.
C39_Witness ==
    /\ call.op = "DeleteChildSubnet"
    /\ Len(call.patches) = 1
    /\ Len(SentIn(call.patches[1].req, {"ChildTier1"})) = 1
    /\ Len(SentIn(call.patches[1].req, {"ChildPolicyNat"})) = 1
    /\ Len(SentIn(call.patches[1].req, {"ChildPolicyNatRule"})) = 2
    /\ AllMarked(SentIn(call.patches[1].req, {"ChildPolicyNatRule", "ChildSegment"}), TRUE)

-----------------------------------------------------------------------------
(* CreateOrUpdateChildSubnet with a parent configuration, on stores with   *)
(* and without a cached child segment.                                     *)

CallCreateOrUpdateChildSubnetOnConfig ==
    \E childSubnet \in ChildSubnets, parentConfig \in ParentConfigs :
      \E r \in CreateOrUpdateChildSubnet(Stores, childSubnet, parentConfig) :
        /\ SetStores(r.s)
        /\ call' = ServiceCall("CreateOrUpdateChildSubnet", childSubnet, parentConfig,
                               <<>>, r)
        /\ UNCHANGED <<parentConfigStore, parentSegmentStore, startup, workers, bindings>>

CreateOnceNext == CallCreateOrUpdateChildSubnetOnConfig

CreateOnceSpec == Init /\ [][CreateOnceNext]_vars

\* C40: a CreateOrUpdateChildSubnet that finds the child segment of its
\* ChildSubnet cached allocates no VLAN, polls nothing, sends no pool or pool
\* subnet, leaves the cached pool, subnet and segment as they are and sets
\* nothing in the status of the ChildSubnet.
C40_CreateOnce ==
    [][ (/\ call'.op = "CreateOrUpdateChildSubnet"
         /\ ByIndex(childSegmentStore, TagScopeChildSubnetUID, call'.uid) # {})
        => /\ call'.vlan = 0
           /\ call'.realized = "-"
           /\ ~call'.status.set
           /\ \A i \in DOMAIN call'.patches :
                  SentIn(call'.patches[i].req,
                         {"ChildIpAddressPool", "ChildIpAddressPoolSubnet"}) = <<>>
           /\ ipPoolStore' = ipPoolStore
           /\ ipBlockSubnetStore' = ipBlockSubnetStore
           /\ childSegmentStore' = childSegmentStore
      ]_vars

\* A call for a ChildSubnet whose child segment is cached found the binding
\* maps as desired and returned without a request.
C40_Witness ==
    /\ call.op = "CreateOrUpdateChildSubnet"
    /\ call.pc # NilPtr
    /\ ByIndex(childSegmentStore, TagScopeChildSubnetUID, call.uid) # {}
    /\ call.outcome = "ok"
    /\ call.err = "no changes"

====
